---------------------------- MODULE Spec2Model ----------------------------
(***************************************************************************)
(* A model of joinery-sim: the box-joint segment generator, the validation *)
(* utilities, the groove-to-solid mapping and the carving pass that the    *)
(* state manager triggers on every state change.                           *)
(*                                                                         *)
(* Numbers.  JavaScript numbers are modelled as exact rationals <<n, d>>   *)
(* in lowest terms with d > 0, so that dimension / totalSegments, the      *)
(* 0.5 rounding grid and the 0.001 / 0.01 tolerances are computed as the   *)
(* code computes them, without the rounding error of IEEE doubles.  NaN    *)
(* (an input field left empty) is the pair <<0, 0>>, for which every       *)
(* comparison is false.                                                    *)
(***************************************************************************)
EXTENDS Integers, Sequences, FiniteSets, TLC

VARIABLES
    boards,            \* StateManager.state.boards: board id -> Board
    selectedBoardId,   \* StateManager.state.selectedBoardId (NoBoard = null)
    selectedSide,      \* StateManager.state.selectedSide (NoSide = null)
    csgFailed,         \* ids whose CSG subtraction threw in the latest pass
    prePass,           \* board id -> the mesh it had when the latest pass began
    ops,               \* number of user operations performed so far
    call,              \* the generator / validator call made last
    result,            \* what that call returned
    heap,              \* the objects allocated so far, by address
    history,           \* StateManager.history, a sequence of snapshots
    historyIndex,      \* StateManager.historyIndex + 1
    showUnselectedTransparent, \* StateManager.state.showUnselectedTransparent
    lastCall,          \* the StateManager call made last and what it did
    scene,             \* the meshes in the THREE scene
    meshCount,         \* number of meshes constructed so far
    timers,            \* the timers set and not yet fired, oldest first
    adaptingJoint,     \* JointEditor.adaptingJoint (NoKey = null)
    running,           \* the notifyListeners calls in progress, innermost last
    task               \* what the running task still has to call

vars ==
    <<boards, selectedBoardId, selectedSide, csgFailed, prePass, ops, call, result,
      heap, history, historyIndex, showUnselectedTransparent, lastCall, scene,
      meshCount, timers, adaptingJoint, running, task>>

\* The object references of the editors are followed in SpecHist only; Spec
\* and SpecGen work on values and leave these variables alone.
histVars == <<heap, history, historyIndex>>

\* The toggle, the scene, the timers and the listeners in progress are
\* followed in the specifications of the state manager and of the event
\* loop; the others leave them as the constructors set them.
appVars ==
    <<showUnselectedTransparent, lastCall, scene, meshCount, timers,
      adaptingJoint, running, task>>

NoKey == <<>>
NoCall == [op |-> "none"]

AppIdle ==
    /\ showUnselectedTransparent = FALSE
    /\ lastCall = NoCall
    /\ scene = {}
    /\ meshCount = 0
    /\ timers = <<>>
    /\ adaptingJoint = NoKey
    /\ running = <<>>
    /\ task = <<>>

-----------------------------------------------------------------------------
(* Bounds of the model                                                     *)

MaxFingerCount == 5
MaxGeomLen == 3
MaxBoards == 1
MaxOps == 3
MaxTextLen == 4

-----------------------------------------------------------------------------
(* Exact rational arithmetic                                               *)

Abs(x) == IF x < 0 THEN -x ELSE x

RECURSIVE GCD(_, _)
GCD(a, b) == IF b = 0 THEN a ELSE GCD(b, a % b)

\* n/d in lowest terms with a positive denominator (d # 0)
Rat(n, d) ==
    LET g == GCD(Abs(n), Abs(d))
        s == IF d < 0 THEN -1 ELSE 1
    IN  <<(s * n) \div g, (s * d) \div g>>

RInt(n) == <<n, 1>>
RNeg(a) == <<-a[1], a[2]>>
\* sums go over the least common denominator, which keeps the products small
RAdd(a, b) ==
    LET g == GCD(a[2], b[2])
    IN  Rat(a[1] * (b[2] \div g) + b[1] * (a[2] \div g), (a[2] \div g) * b[2])
RSub(a, b) == RAdd(a, RNeg(b))
RMul(a, b) == Rat(a[1] * b[1], a[2] * b[2])
RDiv(a, b) == Rat(a[1] * b[2], a[2] * b[1])
RAbs(a) == <<Abs(a[1]), a[2]>>
RHalf(a) == Rat(a[1], 2 * a[2])
RLt(a, b) == a[1] * b[2] < b[1] * a[2]
RLe(a, b) == a[1] * b[2] <= b[1] * a[2]
RZero == RInt(0)

\* Math.round: the nearest integer, halves rounding up
MathRound(a) == (2 * a[1] + a[2]) \div (2 * a[2])

RECURSIVE RSum(_)
RSum(s) == IF s = <<>> THEN RZero ELSE RAdd(s[1], RSum(Tail(s)))

\* sum of the first k entries of s
RECURSIVE RPrefixSum(_, _)
RPrefixSum(s, k) == IF k = 0 THEN RZero ELSE RAdd(RPrefixSum(s, k - 1), s[k])

-----------------------------------------------------------------------------
(* BoxJointGenerator                                                       *)

\* null where a number is expected: the empty tuple, which no rational equals
Null == <<>>

SegmentType(i) == IF i % 2 = 0 THEN "finger" ELSE "groove"

\* A fixed-joint generator that counts one segment too many (2 * fingerCount)
GenerateFixedJointsEvenCount(config, boardDimension) ==
    LET totalSegments == config.fingerCount * 2
        optimalWidth == IF totalSegments = 0 THEN RZero
                        ELSE RDiv(boardDimension, RInt(totalSegments))
    IN  [valid |-> TRUE,
         segments |-> [k \in 1..totalSegments |->
                         [start |-> RMul(RInt(k - 1), optimalWidth),
                          width |-> optimalWidth,
                          type  |-> SegmentType(k - 1)]]]

\* A fixed-joint generator whose centerKeyed branch lays out segments of the
\* requested fingerWidth, centred on the side
GenerateFixedJointsCentered(config, boardDimension) ==
    LET totalSegments == config.fingerCount * 2 - 1
        optimalWidth == RDiv(boardDimension, RInt(totalSegments))
        width == IF config.centerKeyed THEN config.fingerWidth ELSE optimalWidth
        offset == RHalf(RSub(boardDimension, RMul(RInt(totalSegments), width)))
    IN  [valid |-> TRUE,
         segments |-> [k \in 1..totalSegments |->
                         [start |-> RAdd(offset, RMul(RInt(k - 1), width)),
                          width |-> width,
                          type  |-> SegmentType(k - 1)]]]

\* generateFixedJoints(config, boardDimension): segment k of the model is
\* segment i = k - 1 of the code.  Both centerKeyed branches run the same loop.
GenerateFixedJoints(config, boardDimension) ==
    LET totalSegments == config.fingerCount * 2 - 1
        optimalWidth == RDiv(boardDimension, RInt(totalSegments))
        loop == [k \in 1..totalSegments |->
                   [start |-> RMul(RInt(k - 1), optimalWidth),
                    width |-> optimalWidth,
                    type  |-> SegmentType(k - 1)]]
    IN  IF config.centerKeyed
        THEN [valid |-> TRUE, segments |-> loop]
        ELSE [valid |-> TRUE, segments |-> loop]

\* 0.001, the tolerance of the geometry sum
SumTolerance == Rat(1, 1000)

\* A variable-joint generator that compares the signed difference with the
\* tolerance, so that a sum below the dimension is accepted
GenerateVariableJointsSignedDifference(config, boardDimension) ==
    LET geometry == config.geometry
        totalWidth == RSum(geometry)
    IN  IF RLt(SumTolerance, RSub(totalWidth, boardDimension))
        THEN [valid |-> FALSE, error |-> "Geometry sum must equal dimension"]
        ELSE [valid |-> TRUE,
              segments |-> [k \in 1..Len(geometry) |->
                              [start |-> RPrefixSum(geometry, k - 1),
                               width |-> geometry[k],
                               type  |-> SegmentType(k - 1 + config.start)]]]

\* A variable-joint generator whose type parity ignores config.start
GenerateVariableJointsNoStart(config, boardDimension) ==
    LET geometry == config.geometry
        totalWidth == RSum(geometry)
    IN  IF RLt(SumTolerance, RAbs(RSub(totalWidth, boardDimension)))
        THEN [valid |-> FALSE, error |-> "Geometry sum must equal dimension"]
        ELSE [valid |-> TRUE,
              segments |-> [k \in 1..Len(geometry) |->
                              [start |-> RPrefixSum(geometry, k - 1),
                               width |-> geometry[k],
                               type  |-> SegmentType(k - 1)]]]

\* generateVariableJoints(config, boardDimension)
GenerateVariableJoints(config, boardDimension) ==
    LET geometry == config.geometry
        totalWidth == RSum(geometry)
    IN  IF RLt(SumTolerance, RAbs(RSub(totalWidth, boardDimension)))
        THEN [valid |-> FALSE, error |-> "Geometry sum must equal dimension"]
        ELSE [valid |-> TRUE,
              segments |-> [k \in 1..Len(geometry) |->
                              [start |-> RPrefixSum(geometry, k - 1),
                               width |-> geometry[k],
                               type  |-> SegmentType(k - 1 + config.start)]]]

-----------------------------------------------------------------------------
(* ValidationUtils                                                         *)

\* An optimal width rounded to the nearest whole unit instead of the nearest
\* half
CalculateOptimalFingerWidthWholeUnits(fingerCount, boardDimension) ==
    IF fingerCount < 1 \/ RLe(boardDimension, RZero)
    THEN RZero
    ELSE RInt(MathRound(RDiv(boardDimension, RInt(fingerCount * 2 - 1))))

\* calculateOptimalFingerWidth(fingerCount, boardDimension)
CalculateOptimalFingerWidth(fingerCount, boardDimension) ==
    IF fingerCount < 1 \/ RLe(boardDimension, RZero)
    THEN RZero
    ELSE LET totalSegments == fingerCount * 2 - 1
             calculatedWidth == RDiv(boardDimension, RInt(totalSegments))
         IN  Rat(MathRound(RMul(calculatedWidth, RInt(2))), 2)

\* 0.01, the tolerance of the finger width
WidthTolerance == Rat(1, 100)

\* A validator that suggests the unrounded width dimension / totalSegments
ValidateFixedJointRawSuggestion(config, boardDimension) ==
    IF RLe(config.fingerWidth, RZero)
    THEN [valid |-> FALSE, error |-> "Finger width must be positive"]
    ELSE IF config.fingerCount < 1
    THEN [valid |-> FALSE, error |-> "Finger count must be at least 1"]
    ELSE LET optimalWidth ==
                 RDiv(boardDimension, RInt(config.fingerCount * 2 - 1))
             widthDifference == RAbs(RSub(config.fingerWidth, optimalWidth))
         IN  IF RLt(WidthTolerance, widthDifference)
             THEN [valid |-> FALSE,
                   error |-> "Finger width doesn't match board dimension",
                   suggestedWidth |-> optimalWidth]
             ELSE [valid |-> TRUE]

\* validateFixedJoint(config, boardDimension)
ValidateFixedJoint(config, boardDimension) ==
    IF RLe(config.fingerWidth, RZero)
    THEN [valid |-> FALSE, error |-> "Finger width must be positive"]
    ELSE IF config.fingerCount < 1
    THEN [valid |-> FALSE, error |-> "Finger count must be at least 1"]
    ELSE LET optimalWidth ==
                 CalculateOptimalFingerWidth(config.fingerCount, boardDimension)
             widthDifference == RAbs(RSub(config.fingerWidth, optimalWidth))
         IN  IF RLt(WidthTolerance, widthDifference)
             THEN [valid |-> FALSE,
                   error |-> "Finger width doesn't match board dimension",
                   suggestedWidth |-> optimalWidth]
             ELSE [valid |-> TRUE]

\* A validator without the check that every width is positive
ValidateVariableJointNoPositivity(geometry, boardDimension) ==
    IF geometry = <<>>
    THEN [valid |-> FALSE, error |-> "Geometry array cannot be empty"]
    ELSE IF RLt(SumTolerance, RAbs(RSub(RSum(geometry), boardDimension)))
    THEN [valid |-> FALSE, error |-> "Sum must equal dimension"]
    ELSE [valid |-> TRUE]

\* validateVariableJoint(geometry, boardDimension)
ValidateVariableJoint(geometry, boardDimension) ==
    IF geometry = <<>>
    THEN [valid |-> FALSE, error |-> "Geometry array cannot be empty"]
    ELSE IF \E k \in 1..Len(geometry) : RLe(geometry[k], RZero)
    THEN [valid |-> FALSE, error |-> "All widths must be positive"]
    ELSE IF RLt(SumTolerance, RAbs(RSub(RSum(geometry), boardDimension)))
    THEN [valid |-> FALSE, error |-> "Sum must equal dimension"]
    ELSE [valid |-> TRUE]

\* Text is a sequence of characters; the characters of the model are a
\* digit, a letter, the comma and the blank
Digits == {"1"}
Chars == {"1", "x", ",", " "}
DigitValue(c) == IF c = "1" THEN 1 ELSE 0
\* NaN: a pair that no rational equals
NaN == <<0, 0>>

\* the position of the first comma of a text, 0 if it has none
FirstComma(text) ==
    IF \E i \in 1..Len(text) : text[i] = ","
    THEN CHOOSE i \in 1..Len(text) :
             text[i] = "," /\ \A j \in 1..(i - 1) : text[j] # ","
    ELSE 0

RECURSIVE Split(_)
\* input.split(','): the empty text splits into one empty token
Split(text) ==
    LET i == FirstComma(text)
    IN  IF i = 0 THEN <<text>>
        ELSE <<SubSeq(text, 1, i - 1)>> \o Split(SubSeq(text, i + 1, Len(text)))

RECURSIVE TrimStart(_)
TrimStart(token) ==
    IF token # <<>> /\ Head(token) = " " THEN TrimStart(Tail(token)) ELSE token

RECURSIVE TrimEnd(_)
TrimEnd(token) ==
    IF token # <<>> /\ token[Len(token)] = " "
    THEN TrimEnd(SubSeq(token, 1, Len(token) - 1))
    ELSE token

\* s.trim()
Trim(token) == TrimEnd(TrimStart(token))

RECURSIVE DigitPrefix(_)
\* the longest prefix of digits
DigitPrefix(token) ==
    IF token # <<>> /\ Head(token) \in Digits
    THEN <<Head(token)>> \o DigitPrefix(Tail(token))
    ELSE <<>>

RECURSIVE Decimal(_)
Decimal(digits) ==
    IF digits = <<>> THEN 0
    ELSE 10 * Decimal(SubSeq(digits, 1, Len(digits) - 1))
         + DigitValue(digits[Len(digits)])

\* parseFloat(s): the number written by the longest numeric prefix, NaN when
\* there is none; what follows the prefix is ignored
ParseFloat(token) ==
    LET digits == DigitPrefix(TrimStart(token))
    IN  IF digits = <<>> THEN NaN ELSE RInt(Decimal(digits))

\* the trimmed, non-empty tokens of a text
Tokens(text) ==
    LET trimmed == [k \in 1..Len(Split(text)) |-> Trim(Split(text)[k])]
    IN  SelectSeq(trimmed, LAMBDA token : Len(token) > 0)

\* parseGeometryArray(input)
ParseGeometryArray(input) ==
    LET tokens == Tokens(input)
        values == [k \in 1..Len(tokens) |-> ParseFloat(tokens[k])]
    IN  IF \E k \in 1..Len(values) : values[k] = NaN
        THEN [valid |-> FALSE, error |-> "Invalid number in geometry array"]
        ELSE [valid |-> TRUE, values |-> values]

-----------------------------------------------------------------------------
(* Models: JointConfig and Board                                           *)

Sides == {"top", "bottom", "left", "right"}
\* The order in which a pass walks the sides of a board.  The code walks the
\* joint Map in insertion order; the subtraction is a set difference, so the
\* model fixes one order.
SideOrder == <<"top", "bottom", "left", "right">>
NoJoint == [side |-> "none"]
NoBoard == 0
NoSide == "none"
NoMesh == [none |-> TRUE]
NoGroove == [none |-> TRUE]
NoResult == [fn |-> "none"]

DefaultFingerWidth == 10
DefaultFingerCount == 5

\* new JointConfig(side)
NewJointConfig(side) ==
    [side |-> side, mode |-> "fixed",
     fingerWidth |-> RInt(DefaultFingerWidth),
     fingerCount |-> DefaultFingerCount,
     centerKeyed |-> FALSE, start |-> 0, geometry |-> <<>>,
     grooveDepth |-> Null]

\* createBoard's default dimensions
DefaultDimensions ==
    [width |-> RInt(100), height |-> RInt(50), thickness |-> RInt(20)]

\* THREE.BoxGeometry(width, height, thickness) of a board, nothing removed
BaseSolid(dimensions) ==
    [box |-> <<dimensions.width, dimensions.height, dimensions.thickness>>,
     cuts |-> <<>>]

\* new Board(id, dimensions): no joints, no mesh
NewBoard(id, dimensions) ==
    [id |-> id, dimensions |-> dimensions,
     joints |-> [s \in Sides |-> NoJoint], mesh |-> NoMesh]

\* Board.createMesh
CreateMesh(board) == [board EXCEPT !.mesh = BaseSolid(board.dimensions)]

\* Board.updateMesh: the geometry of an existing mesh is replaced by the box
UpdateMesh(board) ==
    IF board.mesh = NoMesh THEN board
    ELSE [board EXCEPT !.mesh = BaseSolid(board.dimensions)]

-----------------------------------------------------------------------------
(* JointVisualizer                                                         *)

\* getSideDimension(board, side)
GetSideDimension(board, side) ==
    CASE side \in {"top", "bottom"} -> board.dimensions.width
      [] side \in {"left", "right"} -> board.dimensions.height
      [] OTHER -> RZero

\* A depth resolution without the fallback for depths <= 0
ResolveGrooveDepthNoFallback(joint, thickness) ==
    LET d0 == IF joint.grooveDepth = Null THEN thickness ELSE joint.grooveDepth
    IN  IF RLt(thickness, d0) THEN thickness ELSE d0

\* The groove depth a pass uses for a joint (visualizeAllBoards)
ResolveGrooveDepth(joint, thickness) ==
    LET d0 == IF joint.grooveDepth = Null THEN thickness ELSE joint.grooveDepth
        d1 == IF RLt(thickness, d0) THEN thickness ELSE d0
    IN  IF RLe(d1, RZero) THEN thickness ELSE d1

\* A groove mapper that ignores where the segment starts
CreateGrooveGeometryNoStart(board, side, segment, grooveDepth) ==
    LET width == board.dimensions.width
        height == board.dimensions.height
        thickness == board.dimensions.thickness
    IN  IF side \in {"top", "bottom"}
        THEN [size |-> <<segment.width, grooveDepth, thickness>>,
              position |-> <<RZero, RZero, RZero>>]
        ELSE [size |-> <<grooveDepth, segment.width, thickness>>,
              position |-> <<RZero, RZero, RZero>>]

\* createGrooveGeometry(board, side, segment, grooveDepth): the groove box in
\* the board's local frame
CreateGrooveGeometry(board, side, segment, grooveDepth) ==
    LET width == board.dimensions.width
        height == board.dimensions.height
        thickness == board.dimensions.thickness
        along(extent) ==
            RAdd(RAdd(RNeg(RHalf(extent)), segment.start), RHalf(segment.width))
    IN  CASE side = "top" ->
               [size |-> <<segment.width, grooveDepth, thickness>>,
                position |-> <<along(width),
                               RSub(RHalf(height), RHalf(grooveDepth)),
                               RZero>>]
          [] side = "bottom" ->
               [size |-> <<segment.width, grooveDepth, thickness>>,
                position |-> <<along(width),
                               RAdd(RNeg(RHalf(height)), RHalf(grooveDepth)),
                               RZero>>]
          [] side = "left" ->
               [size |-> <<grooveDepth, segment.width, thickness>>,
                position |-> <<RAdd(RNeg(RHalf(width)), RHalf(grooveDepth)),
                               along(height),
                               RZero>>]
          [] side = "right" ->
               [size |-> <<grooveDepth, segment.width, thickness>>,
                position |-> <<RSub(RHalf(width), RHalf(grooveDepth)),
                               along(height),
                               RZero>>]
          [] OTHER -> NoGroove

\* The segments a pass obtains for one joint (mode dispatch)
GenerateSegments(joint, dimension) ==
    IF joint.mode = "fixed"
    THEN GenerateFixedJoints(joint, dimension)
    ELSE GenerateVariableJoints(joint, dimension)

RECURSIVE GroovesOf(_, _, _, _)
\* the groove boxes of the groove-typed segments, in segment order
GroovesOf(board, side, segments, grooveDepth) ==
    IF segments = <<>> THEN <<>>
    ELSE LET rest == GroovesOf(board, side, Tail(segments), grooveDepth)
             grooveGeometry ==
                 CreateGrooveGeometry(board, side, Head(segments), grooveDepth)
         IN  IF Head(segments).type = "groove" /\ grooveGeometry # NoGroove
             THEN <<grooveGeometry>> \o rest
             ELSE rest

\* The body of board.joints.forEach in visualizeAllBoards for one side
SideGrooves(board, side) ==
    LET joint == board.joints[side]
        dimension == GetSideDimension(board, side)
        grooveDepth == ResolveGrooveDepth(joint, board.dimensions.thickness)
        generated == GenerateSegments(joint, dimension)
    IN  IF joint = NoJoint THEN <<>>
        ELSE IF generated.valid
        THEN GroovesOf(board, side, generated.segments, grooveDepth)
        ELSE <<>>

RECURSIVE CollectGroovesFrom(_, _)
\* the grooves of the sides SideOrder[k], SideOrder[k + 1], ...
CollectGroovesFrom(board, k) ==
    IF k > Len(SideOrder) THEN <<>>
    ELSE SideGrooves(board, SideOrder[k]) \o CollectGroovesFrom(board, k + 1)

\* A collection that gives up on the whole board when one side's generator
\* result is not valid
CollectGroovesAllOrNothing(board) ==
    IF \E side \in Sides :
           /\ board.joints[side] # NoJoint
           /\ ~GenerateSegments(board.joints[side],
                                GetSideDimension(board, side)).valid
    THEN <<>>
    ELSE CollectGroovesFrom(board, 1)

\* grooveGeometries of one board: the grooves of all its sides
CollectGrooves(board) == CollectGroovesFrom(board, 1)

\* subtractGroovesFromBoard(board, grooveMeshes); throws: the CSG library
\* raised an exception, which the catch block swallows
SubtractGroovesFromBoard(board, grooveMeshes, throws) ==
    IF board.mesh = NoMesh \/ grooveMeshes = <<>> THEN board
    ELSE IF throws THEN board
    ELSE [board EXCEPT !.mesh = [box |-> board.mesh.box,
                                 cuts |-> board.mesh.cuts \o grooveMeshes]]

\* A pass that carves into whatever mesh the board already has
EnsureBaseMeshKeepOld(board) ==
    IF board.mesh = NoMesh THEN CreateMesh(board) ELSE board

\* The first half of the forEach body: a board without a mesh gets one, a
\* board with a mesh gets a fresh base mesh of its current dimensions
EnsureBaseMesh(board) ==
    IF board.mesh = NoMesh
    THEN CreateMesh(board)
    ELSE [board EXCEPT !.mesh = BaseSolid(board.dimensions)]

\* The forEach body of visualizeAllBoards for one board
VisualizeBoard(board, throws) ==
    LET based == EnsureBaseMesh(board)
        grooveGeometries == CollectGrooves(based)
    IN  IF grooveGeometries # <<>>
        THEN SubtractGroovesFromBoard(based, grooveGeometries, throws)
        ELSE based

\* The boards of a pass for which subtractGroovesFromBoard runs the CSG
\* library: those with at least one groove
Carvable(bs) == {id \in DOMAIN bs : CollectGrooves(bs[id]) # <<>>}

Min(S) == CHOOSE x \in S : \A y \in S : x <= y
Max(S) == CHOOSE x \in S : \A y \in S : y <= x

\* A pass in which the first exception ends the forEach: the boards after
\* the failing one are left as they were
VisualizeAllBoardsAbort(bs, fails) ==
    LET bad == fails \cap Carvable(bs)
    IN  [id \in DOMAIN bs |->
           IF bad # {} /\ id > Min(bad) THEN bs[id]
           ELSE VisualizeBoard(bs[id], id \in fails)]

\* visualizeAllBoards(boards); fails: the boards for which the CSG library
\* throws in this pass.  Boards are walked in Map order (ascending id).
VisualizeAllBoards(bs, fails) ==
    [id \in DOMAIN bs |-> VisualizeBoard(bs[id], id \in fails)]

\* The meshes the boards have when a pass begins
MeshesOf(bs) == [id \in DOMAIN bs |-> bs[id].mesh]

-----------------------------------------------------------------------------
(* Inputs of the model                                                     *)

\* values typed into the finger-count field (parseInt)
FingerCountInputs == {0, 3}
\* values typed into the finger-width field
FingerWidthInputs == {RInt(11)}
\* values typed into the groove-depth field
GrooveDepthInputs == {RInt(5), RInt(25)}
\* values typed into a dimension field of the board list
DimensionInputs == {RInt(30)}
DimensionProps == {"width", "height", "thickness"}
\* texts typed into the geometry field, as parseGeometryArray returns them
GeometryInputs ==
    {<<RInt(40), RInt(20), RInt(40)>>,
     <<RInt(60), RInt(-10), RInt(50)>>,
     <<RInt(10), RInt(30), RInt(10)>>,
     <<RInt(10), RInt(10)>>}

\* Project files offered to importFromJSON
ProjectFixedTop ==
    [boards |-> (1 :> [NewBoard(1, DefaultDimensions) EXCEPT
                         !.joints["top"] = NewJointConfig("top")]),
     selectedBoardId |-> 1, selectedSide |-> "top"]

ProjectTwoBoards ==
    [boards |->
       (1 :> [NewBoard(1, DefaultDimensions) EXCEPT
                !.joints["top"] = NewJointConfig("top"),
                !.joints["left"] = [NewJointConfig("left") EXCEPT
                                      !.grooveDepth = RInt(25)]])
       @@
       (2 :> [NewBoard(2, DefaultDimensions) EXCEPT
                !.joints["left"] = [NewJointConfig("left") EXCEPT
                                      !.mode = "variable",
                                      !.geometry = <<RInt(10), RInt(30), RInt(10)>>,
                                      !.grooveDepth = RInt(5)]]),
     selectedBoardId |-> 2, selectedSide |-> "left"]

ProjectNegativeWidths ==
    [boards |->
       (1 :> [NewBoard(1, DefaultDimensions) EXCEPT
                !.joints["top"] = [NewJointConfig("top") EXCEPT
                                     !.mode = "variable", !.start = 1,
                                     !.geometry = <<RInt(50), RInt(-40),
                                                    RInt(50), RInt(40)>>,
                                     !.grooveDepth = RZero]]),
     selectedBoardId |-> NoBoard, selectedSide |-> NoSide]

ProjectFiles == {ProjectFixedTop, ProjectTwoBoards, ProjectNegativeWidths}

-----------------------------------------------------------------------------
(* StateManager.setState and its listeners                                 *)

\* setState({boards: bs, ...}) followed by notifyListeners: the application's
\* listener runs visualizeAllBoards over the boards of the new state.  The
\* CSG library may throw for any of the boards it is run on.
SetStateAndNotify(bs, sel, side) ==
    \E fails \in SUBSET Carvable(bs) :
        /\ boards' = VisualizeAllBoards(bs, fails)
        /\ prePass' = MeshesOf(bs)
        /\ csgFailed' = fails
        /\ selectedBoardId' = sel
        /\ selectedSide' = side
        /\ ops' = ops + 1
        /\ UNCHANGED <<call, result, histVars, appVars>>

-----------------------------------------------------------------------------
(* BoardEditor                                                             *)

\* createBoard()
CreateBoard ==
    /\ ops < MaxOps
    /\ Cardinality(DOMAIN boards) < MaxBoards
    /\   LET maxId == IF DOMAIN boards = {} THEN 0 ELSE Max(DOMAIN boards)
             id == maxId + 1
             board == CreateMesh(NewBoard(id, DefaultDimensions))
         IN  SetStateAndNotify(boards @@ (id :> board), id, selectedSide)

\* updateBoard(id, updates) up to the setState: clone, assign, updateMesh
UpdateBoard(bs, id, updated) == [bs EXCEPT ![id] = UpdateMesh(updated)]

\* The change handler of a dimension field
ChangeDimension(id, prop, value) ==
    /\ ops < MaxOps
    /\ id \in DOMAIN boards
    /\ LET updated == [boards[id] EXCEPT !.dimensions[prop] = value]
       IN  SetStateAndNotify(UpdateBoard(boards, id, updated),
                             selectedBoardId, selectedSide)

\* deleteBoard(id)
DeleteBoard(id) ==
    /\ ops < MaxOps
    /\ id \in DOMAIN boards
    /\ LET bs == [b \in DOMAIN boards \ {id} |-> boards[b]]
       IN  IF selectedBoardId = id
           THEN SetStateAndNotify(bs, NoBoard, NoSide)
           ELSE SetStateAndNotify(bs, selectedBoardId, selectedSide)

\* selectBoard(id)
SelectBoard(id) ==
    /\ ops < MaxOps
    /\ id \in DOMAIN boards
    /\ SetStateAndNotify(boards, id, selectedSide)

-----------------------------------------------------------------------------
(* JointEditor                                                             *)

\* Object.assign(joint, updates)
Assign(joint, updates) ==
    [f \in DOMAIN joint |-> IF f \in DOMAIN updates THEN updates[f] ELSE joint[f]]

\* the joint a side shows: the stored one, or a new one at board thickness
JointOrNew(board, side) ==
    IF board.joints[side] = NoJoint
    THEN [NewJointConfig(side) EXCEPT !.grooveDepth = board.dimensions.thickness]
    ELSE board.joints[side]

\* updateJoint(side, updates) up to the setState, on the selected board sel
UpdateJoint(bs, sel, side, updates) ==
    IF sel \notin DOMAIN bs THEN bs
    ELSE LET board == bs[sel]
             updatedJoint == Assign(JointOrNew(board, side), updates)
         IN  UpdateBoard(bs, sel, [board EXCEPT !.joints[side] = updatedJoint])

\* selectSide(side): the side buttons exist while a board is selected
SelectSide(side) ==
    /\ ops < MaxOps
    /\ selectedBoardId \in DOMAIN boards
    /\ SetStateAndNotify(boards, selectedBoardId, side)

\* The joint form is rendered for the selected side of the selected board
FormShown(mode) ==
    /\ ops < MaxOps
    /\ selectedBoardId \in DOMAIN boards
    /\ selectedSide \in Sides
    /\ mode \in {"any", JointOrNew(boards[selectedBoardId], selectedSide).mode}

\* A handler that makes one updateJoint call
JointHandler(updates) ==
    SetStateAndNotify(UpdateJoint(boards, selectedBoardId, selectedSide, updates),
                      selectedBoardId, selectedSide)

\* autoAdaptFixedJoint(board, side): the width it passes to updateJoint, or
\* Null when it makes no call
AutoAdaptFixedJoint(board, side) ==
    LET joint == board.joints[side]
        validation == ValidateFixedJoint(joint, GetSideDimension(board, side))
    IN  IF joint = NoJoint THEN Null
        ELSE IF joint.mode # "fixed" THEN Null
        ELSE IF ~validation.valid /\ "suggestedWidth" \in DOMAIN validation
        THEN IF RLt(WidthTolerance,
                    RAbs(RSub(joint.fingerWidth, validation.suggestedWidth)))
             THEN validation.suggestedWidth
             ELSE Null
        ELSE Null

\* A handler that calls updateJoint and then autoAdaptFixedJoint with the
\* board it was attached with (the board as rendered, before the update)
AdaptingJointHandler(updates) ==
    LET rendered == boards[selectedBoardId]
        adapted == AutoAdaptFixedJoint(rendered, selectedSide)
        first == UpdateJoint(boards, selectedBoardId, selectedSide, updates)
    IN  IF adapted = Null
        THEN SetStateAndNotify(first, selectedBoardId, selectedSide)
        ELSE \E fails1 \in SUBSET Carvable(first) :
               SetStateAndNotify(
                   UpdateJoint(VisualizeAllBoards(first, fails1), selectedBoardId,
                               selectedSide, [fingerWidth |-> adapted]),
                   selectedBoardId, selectedSide)

ChangeMode(mode) == FormShown("any") /\ JointHandler([mode |-> mode])

ChangeFingerWidth(newWidth) ==
    FormShown("fixed") /\ AdaptingJointHandler([fingerWidth |-> newWidth])

ChangeFingerCount(newCount) ==
    FormShown("fixed") /\ AdaptingJointHandler([fingerCount |-> newCount])

ChangeCenterKeyed(checked) ==
    FormShown("fixed") /\ JointHandler([centerKeyed |-> checked])

\* The groove-depth handler clamps to the thickness and ignores newDepth <= 0
ChangeGrooveDepth(newDepth) ==
    /\ FormShown("any")
    /\ RLt(RZero, newDepth)
    /\ LET boardThickness == boards[selectedBoardId].dimensions.thickness
       IN  IF RLt(boardThickness, newDepth)
           THEN JointHandler([grooveDepth |-> boardThickness])
           ELSE JointHandler([grooveDepth |-> newDepth])

ChangeStart(start) == FormShown("variable") /\ JointHandler([start |-> start])

ChangeGeometry(values) ==
    FormShown("variable") /\ JointHandler([geometry |-> values])

-----------------------------------------------------------------------------
(* Import                                                                  *)

\* importFromJSON(file) and, on success, refreshScene: the state is replaced
\* by boards that have no mesh, the listeners run a pass, then refreshScene
\* gives every board a new base mesh and runs a second pass
ImportProject(file) ==
    /\ ops < MaxOps
    /\ \E fails1 \in SUBSET Carvable(file.boards) :
         LET first == VisualizeAllBoards(file.boards, fails1)
             refreshed == [id \in DOMAIN first |-> CreateMesh(first[id])]
         IN  SetStateAndNotify(refreshed, file.selectedBoardId,
                               file.selectedSide)

-----------------------------------------------------------------------------
(* Export and import of a project as JSON                                  *)

\* JSON.stringify of a number: NaN has no JSON form and is written as null
StringifyNumber(x) == IF x = NaN THEN Null ELSE x

\* JSON.stringify of a JointConfig: its own fields, the numbers as above
StringifyJoint(joint) ==
    [side |-> joint.side, mode |-> joint.mode,
     fingerWidth |-> StringifyNumber(joint.fingerWidth),
     fingerCount |-> joint.fingerCount,
     centerKeyed |-> joint.centerKeyed, start |-> joint.start,
     geometry |-> [k \in 1..Len(joint.geometry) |->
                     StringifyNumber(joint.geometry[k])],
     grooveDepth |-> StringifyNumber(joint.grooveDepth)]

RECURSIVE JointEntries(_, _)
\* Array.from(board.joints.entries()) from the k-th side on: [side, joint]
\* pairs of the sides that have a joint
JointEntries(board, k) ==
    IF k > Len(SideOrder) THEN <<>>
    ELSE LET side == SideOrder[k]
             rest == JointEntries(board, k + 1)
         IN  IF board.joints[side] = NoJoint THEN rest
             ELSE << <<side, StringifyJoint(board.joints[side])>> >> \o rest

RECURSIVE BoardEntries(_, _)
\* Array.from(state.boards.entries()) over the ids: [id, boardData] pairs;
\* the mesh of a board is not written
BoardEntries(bs, ids) ==
    IF ids = {} THEN <<>>
    ELSE LET id == Min(ids)
             boardData ==
                 [id |-> bs[id].id,
                  dimensions |->
                      [prop \in DOMAIN bs[id].dimensions |->
                         StringifyNumber(bs[id].dimensions[prop])],
                  joints |-> JointEntries(bs[id], 1)]
         IN  << <<id, boardData>> >> \o BoardEntries(bs, ids \ {id})

\* exportToJSON(): the document, as JSON.parse reads it back
ExportToJSON(bs, sel, side) ==
    [boards |-> BoardEntries(bs, DOMAIN bs),
     selectedBoardId |-> sel, selectedSide |-> side]

\* The Map of joints that importFromJSON builds from the entries of a board:
\* new JointConfig(side) with the stored fields assigned over it
ImportJoints(entries) ==
    [side \in Sides |->
       IF \E k \in 1..Len(entries) : entries[k][1] = side
       THEN LET k == CHOOSE k \in 1..Len(entries) :
                         /\ entries[k][1] = side
                         /\ \A j \in (k + 1)..Len(entries) : entries[j][1] # side
            IN  Assign(NewJointConfig(side), entries[k][2])
       ELSE NoJoint]

\* importFromJSON(jsonString) of a well-formed document: the state it sets
ImportFromJSON(parsed) ==
    [boards |->
       [id \in {parsed.boards[k][1] : k \in 1..Len(parsed.boards)} |->
          LET k == CHOOSE k \in 1..Len(parsed.boards) :
                       /\ parsed.boards[k][1] = id
                       /\ \A j \in (k + 1)..Len(parsed.boards) :
                            parsed.boards[j][1] # id
              boardData == parsed.boards[k][2]
          IN  [NewBoard(boardData.id, boardData.dimensions) EXCEPT
                 !.joints = ImportJoints(boardData.joints)]],
     selectedBoardId |-> parsed.selectedBoardId,
     selectedSide |-> parsed.selectedSide]

-----------------------------------------------------------------------------
(* The application                                                         *)

Init ==
    /\ boards = <<>>
    /\ selectedBoardId = NoBoard
    /\ selectedSide = NoSide
    /\ csgFailed = {}
    /\ prePass = <<>>
    /\ ops = 0
    /\ call = [fn |-> "none"]
    /\ result = NoResult
    /\ heap = <<>>
    /\ history = <<>>
    /\ historyIndex = 0
    /\ AppIdle

BoardIds == 1..(MaxBoards + MaxOps)

Next ==
    \/ CreateBoard
    \/ \E id \in BoardIds, prop \in DimensionProps, value \in DimensionInputs :
         ChangeDimension(id, prop, value)
    \/ \E id \in BoardIds : DeleteBoard(id)
    \/ \E id \in BoardIds : SelectBoard(id)
    \/ \E side \in Sides : SelectSide(side)
    \/ \E mode \in {"fixed", "variable"} : ChangeMode(mode)
    \/ \E newWidth \in FingerWidthInputs : ChangeFingerWidth(newWidth)
    \/ \E newCount \in FingerCountInputs : ChangeFingerCount(newCount)
    \/ \E checked \in BOOLEAN : ChangeCenterKeyed(checked)
    \/ \E newDepth \in GrooveDepthInputs : ChangeGrooveDepth(newDepth)
    \/ \E start \in {0, 1} : ChangeStart(start)
    \/ \E values \in GeometryInputs : ChangeGeometry(values)
    \/ \E file \in ProjectFiles : ImportProject(file)

Spec == Init /\ [][Next]_vars

-----------------------------------------------------------------------------
(* The generator and the validator called on their own                     *)

\* finger counts, widths and side dimensions handed to the pure functions
GenFingerCounts == (-1)..MaxFingerCount
GenFingerWidths ==
    {RInt(-1), RZero, RInt(10), RInt(11), Rat(1101, 100), Rat(2203, 200)}
GenDimensions == {RInt(-50), RZero, RInt(2), RInt(30), RInt(100)}
\* geometry entries: 19.9995 and 19.9991 put a sum just inside, and 19.998
\* just outside, the 0.001 tolerance of 30
GenWidths ==
    {RInt(-10), RZero, RInt(10), RInt(20), Rat(39999, 2000),
     Rat(199991, 10000), Rat(19998, 1000)}
GenGeometries == UNION {[1..n -> GenWidths] : n \in 0..MaxGeomLen}

FixedConfig(fingerWidth, fingerCount, centerKeyed) ==
    [NewJointConfig("top") EXCEPT !.fingerWidth = fingerWidth,
                                  !.fingerCount = fingerCount,
                                  !.centerKeyed = centerKeyed]

VariableConfig(start, geometry) ==
    [NewJointConfig("top") EXCEPT !.mode = "variable", !.start = start,
                                  !.geometry = geometry]

\* The calls made: a function name with its arguments
FixedCalls(fn) ==
    {[fn |-> fn, config |-> FixedConfig(fw, fc, ck), dimension |-> dimension] :
        fw \in GenFingerWidths, fc \in GenFingerCounts, ck \in BOOLEAN,
        dimension \in GenDimensions}

VariableCalls(fn) ==
    {[fn |-> fn, config |-> VariableConfig(start, geometry),
      dimension |-> dimension] :
        start \in {0, 1}, geometry \in GenGeometries, dimension \in GenDimensions}

\* calculateOptimalFingerWidth(fingerCount, boardDimension) calls
OptimalWidthCalls ==
    {[fn |-> "calculateOptimalFingerWidth", fingerCount |-> fc,
      dimension |-> dimension] :
        fc \in GenFingerCounts, dimension \in GenDimensions}

\* stored groove depths and board thicknesses for the depth resolution
GenGrooveDepths == {Null, RInt(-1), RZero, RInt(5), RInt(20), RInt(25)}

GrooveDepthCalls ==
    {[fn |-> "resolveGrooveDepth",
      config |-> [NewJointConfig("top") EXCEPT !.grooveDepth = depth],
      dimension |-> thickness] :
        depth \in GenGrooveDepths, thickness \in GenDimensions}

\* boards, sides, segments and depths handed to createGrooveGeometry
GenBoards ==
    {NewBoard(1, [width |-> w, height |-> RInt(50), thickness |-> RInt(20)]) :
        w \in {RInt(30), RInt(100)}}

GenSegments ==
    {[start |-> start, width |-> width, type |-> "groove"] :
        start \in {RZero, RInt(10), Rat(100, 9)},
        width \in {RInt(10), Rat(100, 9)}}

GrooveGeometryCalls ==
    {[fn |-> "createGrooveGeometry", board |-> board, side |-> side,
      segment |-> segment, grooveDepth |-> depth] :
        board \in GenBoards, side \in Sides \cup {"front"},
        segment \in GenSegments, depth \in {RInt(5), RInt(20)}}

\* texts typed into the geometry field
GenTexts == UNION {[1..n -> Chars] : n \in 0..MaxTextLen}

ParseCalls == {[fn |-> "parseGeometryArray", input |-> text] : text \in GenTexts}

\* joints of the projects that are exported: the finger-width field left
\* empty stores parseFloat('') = NaN
GenJoints(side) ==
    {NoJoint,
     NewJointConfig(side),
     [NewJointConfig(side) EXCEPT !.fingerWidth = Rat(23, 2), !.fingerCount = 3,
                                  !.centerKeyed = TRUE,
                                  !.grooveDepth = Rat(25, 2)],
     [NewJointConfig(side) EXCEPT !.mode = "variable", !.start = 1,
                                  !.geometry = <<RInt(60), Rat(1, 2),
                                                 Rat(79, 2)>>,
                                  !.grooveDepth = RInt(5)],
     [NewJointConfig(side) EXCEPT !.fingerWidth = NaN,
                                  !.grooveDepth = RInt(20)]}

ExportCalls ==
    {[fn |-> "exportImport",
      boards |-> (1 :> [NewBoard(1, DefaultDimensions) EXCEPT
                          !.joints["top"] = top, !.joints["left"] = left])] :
        top \in GenJoints("top"), left \in GenJoints("left")}

\* boards and joints whose one side is mapped to groove solids; the second
\* board is thicker than it is high, and the geometry of 50 and 50.0005
\* exceeds the side of 100 within the generator's tolerance
CarvedBoardDimensions ==
    {DefaultDimensions,
     [width |-> RInt(100), height |-> RInt(10), thickness |-> RInt(20)],
     [width |-> RInt(30), height |-> RInt(50), thickness |-> RInt(20)]}

CarvedJoints(side) ==
    {[NewJointConfig(side) EXCEPT !.fingerCount = fc, !.grooveDepth = depth] :
        fc \in {1, 3, DefaultFingerCount}, depth \in {Null, RInt(5), RInt(25)}}
    \cup
    {[NewJointConfig(side) EXCEPT !.mode = "variable", !.start = start,
                                  !.geometry = geometry,
                                  !.grooveDepth = RInt(5)] :
        start \in {0, 1},
        geometry \in {<<RInt(60), RInt(40)>>,
                      <<RInt(10), RInt(10), RInt(10)>>,
                      <<RInt(50), Rat(100001, 2000)>>,
                      <<RInt(110), RInt(-10)>>}}

SideGroovesCalls ==
    UNION {{[fn |-> "sideGrooves",
             board |-> [NewBoard(1, dimensions) EXCEPT !.joints[side] = joint],
             side |-> side] :
               dimensions \in CarvedBoardDimensions,
               joint \in CarvedJoints(side)} : side \in Sides}

InitGen ==
    /\ boards = <<>>
    /\ selectedBoardId = NoBoard
    /\ selectedSide = NoSide
    /\ csgFailed = {}
    /\ prePass = <<>>
    /\ ops = 0
    /\ call \in FixedCalls("generateFixedJoints")
                  \cup VariableCalls("generateVariableJoints")
                  \cup FixedCalls("validateFixedJoint")
                  \cup OptimalWidthCalls
                  \cup VariableCalls("validateVariableJoint")
                  \cup GrooveDepthCalls
                  \cup GrooveGeometryCalls
                  \cup ParseCalls
                  \cup ExportCalls
                  \cup SideGroovesCalls
    /\ result = NoResult
    /\ heap = <<>>
    /\ history = <<>>
    /\ historyIndex = 0
    /\ AppIdle

Returns(value) ==
    /\ result = NoResult
    /\ result' = value
    /\ UNCHANGED <<boards, selectedBoardId, selectedSide, csgFailed, prePass,
                   ops, call, histVars, appVars>>

CallGenerateFixedJoints ==
    /\ call.fn = "generateFixedJoints"
    /\ Returns(GenerateFixedJoints(call.config, call.dimension))

CallGenerateVariableJoints ==
    /\ call.fn = "generateVariableJoints"
    /\ Returns(GenerateVariableJoints(call.config, call.dimension))

CallValidateFixedJoint ==
    /\ call.fn = "validateFixedJoint"
    /\ Returns(ValidateFixedJoint(call.config, call.dimension))

CallCalculateOptimalFingerWidth ==
    /\ call.fn = "calculateOptimalFingerWidth"
    /\ Returns([value |->
                  CalculateOptimalFingerWidth(call.fingerCount, call.dimension)])

CallValidateVariableJoint ==
    /\ call.fn = "validateVariableJoint"
    /\ Returns(ValidateVariableJoint(call.config.geometry, call.dimension))

CallResolveGrooveDepth ==
    /\ call.fn = "resolveGrooveDepth"
    /\ Returns([value |-> ResolveGrooveDepth(call.config, call.dimension)])

CallCreateGrooveGeometry ==
    /\ call.fn = "createGrooveGeometry"
    /\ Returns(CreateGrooveGeometry(call.board, call.side, call.segment,
                                    call.grooveDepth))

CallParseGeometryArray ==
    /\ call.fn = "parseGeometryArray"
    /\ Returns(ParseGeometryArray(call.input))

\* importFromJSON(exportToJSON()) on a state with the boards of the call
CallExportImport ==
    /\ call.fn = "exportImport"
    /\ Returns(ImportFromJSON(ExportToJSON(call.boards, NoBoard, NoSide)))

\* The body of board.joints.forEach in visualizeAllBoards for the side
CallSideGrooves ==
    /\ call.fn = "sideGrooves"
    /\ Returns([grooves |-> SideGrooves(call.board, call.side)])

NextGen ==
    \/ CallGenerateFixedJoints
    \/ CallGenerateVariableJoints
    \/ CallValidateFixedJoint
    \/ CallCalculateOptimalFingerWidth
    \/ CallValidateVariableJoint
    \/ CallResolveGrooveDepth
    \/ CallCreateGrooveGeometry
    \/ CallParseGeometryArray
    \/ CallExportImport
    \/ CallSideGrooves

SpecGen == InitGen /\ [][NextGen]_vars

-----------------------------------------------------------------------------
(* Properties of the generator and the validator (SpecGen)                 *)

Returned(fn) == call.fn = fn /\ result # NoResult

AllPositive(geometry) == \A k \in 1..Len(geometry) : RLt(RZero, geometry[k])

WidthsOf(segments) == [k \in 1..Len(segments) |-> segments[k].width]

\* C1: for fingerCount >= 1 and dimension > 0, generateFixedJoints returns
\* 2 * fingerCount - 1 segments that alternate finger, groove, ..., finger,
\* each of width dimension / (2 * fingerCount - 1), segment i starting at i
\* times that width, and the widths sum to the dimension.
C1_FixedSegmentsTile ==
    (/\ Returned("generateFixedJoints")
     /\ call.config.fingerCount >= 1
     /\ RLt(RZero, call.dimension))
    => LET total == 2 * call.config.fingerCount - 1
           each == RDiv(call.dimension, RInt(total))
           segments == result.segments
       IN  /\ result.valid
           /\ Len(segments) = total
           /\ \A k \in 1..total :
                /\ segments[k].type = (IF k % 2 = 1 THEN "finger" ELSE "groove")
                /\ segments[k].width = each
                /\ segments[k].start = RMul(RInt(k - 1), each)
           /\ segments[1].type = "finger"
           /\ segments[total].type = "finger"
           /\ RSum(WidthsOf(segments)) = call.dimension

\* C1 witness: five fingers over a side of 100 gave nine segments
C1_Witness ==
    /\ Returned("generateFixedJoints")
    /\ call.config.fingerCount = 5
    /\ call.dimension = RInt(100)
    /\ Len(result.segments) = 9

\* C2: for a non-empty geometry of positive widths whose sum is within 0.001
\* of the dimension, generateVariableJoints succeeds with one segment per
\* entry, of that entry's width, starting where the previous one ends (the
\* first at 0), of type finger when index + start is even and groove otherwise.
C2_VariableSegmentsFollowGeometry ==
    (/\ Returned("generateVariableJoints")
     /\ call.config.geometry # <<>>
     /\ AllPositive(call.config.geometry)
     /\ RLe(RAbs(RSub(RSum(call.config.geometry), call.dimension)), SumTolerance))
    => LET geometry == call.config.geometry
           segments == result.segments
       IN  /\ result.valid
           /\ Len(segments) = Len(geometry)
           /\ segments[1].start = RZero
           /\ \A k \in 1..Len(geometry) :
                /\ segments[k].width = geometry[k]
                /\ k > 1 => segments[k].start =
                              RAdd(segments[k - 1].start, segments[k - 1].width)
                /\ segments[k].type =
                     (IF (k - 1 + call.config.start) % 2 = 0
                      THEN "finger" ELSE "groove")
           /\ segments[1].type =
                (IF call.config.start = 0 THEN "finger" ELSE "groove")

\* C2 witness: a groove-first geometry of two or more positive widths whose
\* sum differs from the dimension, within the tolerance, was accepted
C2_Witness ==
    /\ Returned("generateVariableJoints")
    /\ result.valid
    /\ call.config.start = 1
    /\ Len(call.config.geometry) >= 2
    /\ AllPositive(call.config.geometry)
    /\ RSum(call.config.geometry) # call.dimension

\* C8: generateFixedJoints returns valid:false when fingerCount < 1 and
\* valid:true when fingerCount >= 1.
C8_FixedValidIffCountPositive ==
    Returned("generateFixedJoints")
    => (result.valid <=> call.config.fingerCount >= 1)

\* C10: validateFixedJoint fails when fingerWidth <= 0 or fingerCount < 1;
\* otherwise it succeeds exactly when fingerWidth is within 0.01 of
\* calculateOptimalFingerWidth(fingerCount, dimension), and a mismatch carries
\* an error and that optimal width as suggestedWidth; width 10, count 5 over
\* 100 fails with suggestedWidth 11.
C10_ValidateFixedJoint ==
    Returned("validateFixedJoint")
    => LET fingerWidth == call.config.fingerWidth
           fingerCount == call.config.fingerCount
           optimal == CalculateOptimalFingerWidth(fingerCount, call.dimension)
           rejected == RLe(fingerWidth, RZero) \/ fingerCount < 1
           close == RLe(RAbs(RSub(fingerWidth, optimal)), WidthTolerance)
       IN  /\ rejected => ~result.valid /\ "error" \in DOMAIN result
           /\ ~rejected => (result.valid <=> close)
           /\ (~rejected /\ ~close) =>
                /\ DOMAIN result = {"valid", "error", "suggestedWidth"}
                /\ result.suggestedWidth = optimal
           /\ (fingerWidth = RInt(10) /\ fingerCount = 5
                 /\ call.dimension = RInt(100)) =>
                /\ ~result.valid
                /\ result.suggestedWidth = RInt(11)

\* C10 witness: width 10, count 5 over 100 was rejected with a suggestion
C10_Witness ==
    /\ Returned("validateFixedJoint")
    /\ call.config.fingerWidth = RInt(10)
    /\ call.config.fingerCount = 5
    /\ call.dimension = RInt(100)
    /\ ~result.valid
    /\ "suggestedWidth" \in DOMAIN result

-----------------------------------------------------------------------------
(* Properties of the carving pass (Spec)                                   *)

\* Two groove boxes share interior volume: on every axis their centres are
\* closer than the sum of their half-extents
Overlap(g, h) ==
    \A axis \in 1..3 :
        RLt(RAbs(RSub(g.position[axis], h.position[axis])),
            RHalf(RAdd(RAbs(g.size[axis]), RAbs(h.size[axis]))))

PairwiseDisjoint(grooves) ==
    \A i, j \in 1..Len(grooves) : i < j => ~Overlap(grooves[i], grooves[j])

\* The solid a successful pass leaves a board with
CarvedSolid(board) ==
    [box |-> <<board.dimensions.width, board.dimensions.height,
               board.dimensions.thickness>>,
     cuts |-> CollectGrooves(board)]

\* C3 (as stated): the groove solids collected for one board in one pass,
\* over all its sides, are pairwise non-overlapping.
C3_BoardGroovesDisjoint ==
    \A id \in DOMAIN boards : PairwiseDisjoint(CollectGrooves(boards[id]))

\* C3 (amended): the groove solids collected for one side of a board are
\* pairwise non-overlapping when that side's joint is Fixed, or Variable with
\* only positive geometry entries; grooves of different sides may overlap.
C3_SideGroovesDisjoint ==
    \A id \in DOMAIN boards : \A side \in Sides :
        LET joint == boards[id].joints[side]
        IN  (/\ joint # NoJoint
             /\ joint.mode = "fixed" \/ AllPositive(joint.geometry))
            => PairwiseDisjoint(SideGrooves(boards[id], side))

\* C3 witness: a carved board with two or more grooves on one side and
\* grooves on another side as well
C3_Witness ==
    \E id \in DOMAIN boards \ csgFailed : \E s1, s2 \in Sides :
        /\ s1 # s2
        /\ Len(SideGrooves(boards[id], s1)) >= 2
        /\ SideGrooves(boards[id], s2) # <<>>
        /\ Len(boards[id].mesh.cuts) >= 3

\* C4: a board whose subtraction raised an error in a pass keeps the solid it
\* had before that pass began; none of the pass's grooves are applied to it.
C4_FailedBoardKeepsPreviousSolid ==
    \A id \in csgFailed : boards[id].mesh = prePass[id]

\* C5: a subtraction failure on one board changes no other board: every board
\* whose subtraction did not fail is carved exactly as in a pass without
\* failures.
C5_FailureIsLocal ==
    \A id \in DOMAIN boards \ csgFailed :
        boards[id] = VisualizeAllBoards(boards, {})[id]

\* C5 witness: the subtraction failed on one board and a board walked after
\* it was carved
C5_Witness ==
    \E failed \in csgFailed : \E id \in DOMAIN boards \ csgFailed :
        /\ failed < id
        /\ boards[id].mesh.cuts # <<>>

\* C6: after a pass without failures every board's solid is its base box of
\* its current dimensions minus the grooves of its current joints, whatever
\* the solid was before, and running the pass again yields the same solids.
C6_PassFromFreshBase ==
    csgFailed = {} =>
        /\ \A id \in DOMAIN boards : boards[id].mesh = CarvedSolid(boards[id])
        /\ MeshesOf(VisualizeAllBoards(boards, {})) = MeshesOf(boards)

\* C6 witness: a board that was already carved when the pass began has been
\* carved by the pass
C6_Witness ==
    /\ csgFailed = {}
    /\ \E id \in DOMAIN boards :
         /\ id \in DOMAIN prePass
         /\ prePass[id] # NoMesh
         /\ prePass[id].cuts # <<>>
         /\ boards[id].mesh.cuts # <<>>

\* The scenario board: 100 x 50 x 20, a Fixed joint of five fingers with no
\* groove depth of its own on the top side, no joint on the other sides
IsScenarioBoard(board) ==
    /\ board.dimensions = DefaultDimensions
    /\ board.joints["top"] # NoJoint
    /\ board.joints["top"].mode = "fixed"
    /\ board.joints["top"].fingerCount = 5
    /\ board.joints["top"].grooveDepth = Null
    /\ \A side \in Sides \ {"top"} : board.joints[side] = NoJoint

\* The left edge of a groove box, measured from the board's left edge
LeftEdge(board, groove) ==
    RAdd(RSub(groove.position[1], RHalf(groove.size[1])),
         RHalf(board.dimensions.width))

\* C7 (as stated): for the scenario board a pass produces exactly 4 groove
\* solids, each of width 11 and depth 20, ordered left to right.
C7_FourGroovesOfWidthEleven ==
    \A id \in DOMAIN boards \ csgFailed :
        IsScenarioBoard(boards[id]) =>
            LET cuts == boards[id].mesh.cuts
            IN  /\ Len(cuts) = 4
                /\ \A k \in 1..Len(cuts) :
                     /\ cuts[k].size[1] = RInt(11)
                     /\ cuts[k].size[2] = RInt(20)
                     /\ k > 1 => RLt(cuts[k - 1].position[1], cuts[k].position[1])

\* C7 (amended): for the scenario board a pass produces exactly 4 groove
\* solids, each of width 100/9 (about 11.11), depth 20 and the full thickness
\* 20, cut from the top edge, ordered left to right: groove k begins
\* (2k - 1) * 100/9 from the board's left edge.
C7_FourGroovesOfNinthWidth ==
    \A id \in DOMAIN boards \ csgFailed :
        IsScenarioBoard(boards[id]) =>
            LET cuts == boards[id].mesh.cuts
                ninth == Rat(100, 9)
            IN  /\ Len(cuts) = 4
                /\ \A k \in 1..Len(cuts) :
                     /\ cuts[k].size = <<ninth, RInt(20), RInt(20)>>
                     /\ LeftEdge(boards[id], cuts[k]) =
                          RMul(RInt(2 * k - 1), ninth)
                     /\ RAdd(cuts[k].position[2], RHalf(cuts[k].size[2])) =
                          RHalf(boards[id].dimensions.height)
                     /\ cuts[k].position[3] = RZero
                     /\ k > 1 => RLt(cuts[k - 1].position[1], cuts[k].position[1])

\* C7 witness: the scenario board has been carved
C7_Witness ==
    \E id \in DOMAIN boards \ csgFailed :
        /\ IsScenarioBoard(boards[id])
        /\ boards[id].mesh.cuts # <<>>

\* C9: every segment of a valid result that a pass obtains from the
\* generators, for the joints and side dimensions of the boards in the state,
\* has start >= 0 and width > 0.
C9_PassSegmentsWellFormed ==
    \A id \in DOMAIN boards : \A side \in Sides :
        LET joint == boards[id].joints[side]
            generated ==
                GenerateSegments(joint, GetSideDimension(boards[id], side))
        IN  (joint # NoJoint /\ generated.valid) =>
                \A k \in 1..Len(generated.segments) :
                    /\ RLe(RZero, generated.segments[k].start)
                    /\ RLt(RZero, generated.segments[k].width)

-----------------------------------------------------------------------------
(* Further properties of the validator (SpecGen)                           *)

\* C11: whenever validateFixedJoint fails with a suggestedWidth, validating
\* the same configuration with fingerWidth replaced by that suggestion,
\* against the same dimension, succeeds (fingerCount >= 1, any dimension).
C11_SuggestionValidates ==
    (/\ Returned("validateFixedJoint")
     /\ call.config.fingerCount >= 1
     /\ ~result.valid
     /\ "suggestedWidth" \in DOMAIN result)
    => ValidateFixedJoint(
           [call.config EXCEPT !.fingerWidth = result.suggestedWidth],
           call.dimension).valid

\* C12: calculateOptimalFingerWidth returns 0 when fingerCount < 1 or
\* dimension <= 0; otherwise the multiple of 0.5 nearest to
\* dimension / (2 * fingerCount - 1), a tie going to the larger one; for
\* 5 fingers over 100 it returns 11.
C12_OptimalWidthHalfSteps ==
    Returned("calculateOptimalFingerWidth")
    => LET fingerCount == call.fingerCount
           dimension == call.dimension
           doubled == RMul(RInt(2), result.value)
           exact == IF fingerCount >= 1
                    THEN RMul(RInt(2),
                              RDiv(dimension, RInt(2 * fingerCount - 1)))
                    ELSE RZero
       IN  /\ (fingerCount < 1 \/ RLe(dimension, RZero)) => result.value = RZero
           /\ (fingerCount >= 1 /\ RLt(RZero, dimension)) =>
                /\ doubled[2] = 1
                /\ RLt(RSub(exact, Rat(1, 2)), doubled)
                /\ RLe(doubled, RAdd(exact, Rat(1, 2)))
           /\ (fingerCount = 5 /\ dimension = RInt(100)) =>
                result.value = RInt(11)

\* C12 witness: 4 fingers over 30 gave 4.5 (30/7 is about 4.29)
C12_Witness ==
    /\ Returned("calculateOptimalFingerWidth")
    /\ call.fingerCount = 4
    /\ call.dimension = RInt(30)
    /\ result.value = Rat(9, 2)

\* The distance between the sum of a geometry and a dimension
SumError(geometry, dimension) == RAbs(RSub(RSum(geometry), dimension))

\* C13: validateVariableJoint fails when the geometry is empty, when an entry
\* is <= 0, or when the sum is more than 0.001 from the dimension, and
\* succeeds otherwise; a sum that is 0.0009 off passes.
C13_ValidateVariableJoint ==
    Returned("validateVariableJoint")
    => LET geometry == call.config.geometry
           rejected ==
               \/ Len(geometry) = 0
               \/ ~AllPositive(geometry)
               \/ RLt(Rat(1, 1000), SumError(geometry, call.dimension))
       IN  /\ result.valid <=> ~rejected
           /\ ~result.valid => "error" \in DOMAIN result
           /\ (/\ Len(geometry) > 0
               /\ AllPositive(geometry)
               /\ SumError(geometry, call.dimension) = Rat(9, 10000))
              => result.valid

\* C13 witness: a geometry of positive widths whose sum is 0.0009 off passed
C13_Witness ==
    /\ Returned("validateVariableJoint")
    /\ AllPositive(call.config.geometry)
    /\ SumError(call.config.geometry, call.dimension) = Rat(9, 10000)
    /\ result.valid

\* C14: generateVariableJoints returns valid:false with an error and no
\* segments whenever the sum of the geometry is more than 0.001 from the
\* dimension.
C14_SumMismatchRejected ==
    (/\ Returned("generateVariableJoints")
     /\ RLt(Rat(1, 1000), SumError(call.config.geometry, call.dimension)))
    => /\ ~result.valid
       /\ DOMAIN result = {"valid", "error"}

\* C14 witness: a sum 0.002 below the dimension was rejected
C14_Witness ==
    /\ Returned("generateVariableJoints")
    /\ RSub(call.dimension, RSum(call.config.geometry)) = Rat(2, 1000)
    /\ ~result.valid

\* C15: the segments of generateFixedJoints depend only on fingerCount and
\* the dimension: a configuration that differs from the one called with only
\* in fingerWidth and centerKeyed gives the same segment sequence.
C15_FixedSegmentsIgnoreWidthAndKeying ==
    Returned("generateFixedJoints")
    => \A fingerWidth \in GenFingerWidths, centerKeyed \in BOOLEAN :
           GenerateFixedJoints(
               [call.config EXCEPT !.fingerWidth = fingerWidth,
                                   !.centerKeyed = centerKeyed],
               call.dimension).segments = result.segments

\* C15 witness: a centre-keyed call with a width that does not tile the side
\* returned segments
C15_Witness ==
    /\ Returned("generateFixedJoints")
    /\ call.config.centerKeyed
    /\ call.config.fingerWidth = RInt(10)
    /\ call.config.fingerCount = 3
    /\ call.dimension = RInt(100)
    /\ Len(result.segments) = 5

\* C16: for thickness > 0 and any stored grooveDepth the carving depth lies
\* in (0, thickness]: null gives thickness, a value above thickness is
\* clamped to it, a value <= 0 falls back to it, any other value is kept.
C16_GrooveDepthResolved ==
    (Returned("resolveGrooveDepth") /\ RLt(RZero, call.dimension))
    => LET stored == call.config.grooveDepth
           thickness == call.dimension
           depth == result.value
       IN  /\ RLt(RZero, depth) /\ RLe(depth, thickness)
           /\ stored = Null => depth = thickness
           /\ stored # Null =>
                /\ RLt(thickness, stored) => depth = thickness
                /\ RLe(stored, RZero) => depth = thickness
                /\ (RLt(RZero, stored) /\ RLe(stored, thickness)) =>
                     depth = stored

\* C16 witness: a stored depth of -1 on a board 30 thick resolved to 30
C16_Witness ==
    /\ Returned("resolveGrooveDepth")
    /\ call.config.grooveDepth = RInt(-1)
    /\ call.dimension = RInt(30)
    /\ result.value = RInt(30)

\* C17: createGrooveGeometry follows the side table: top and bottom give size
\* (segWidth, depth, thickness) at x = -width/2 + segStart + segWidth/2 and
\* y = height/2 - depth/2 (top) or -height/2 + depth/2 (bottom); left and
\* right give size (depth, segWidth, thickness) at
\* y = -height/2 + segStart + segWidth/2 and x = -width/2 + depth/2 (left) or
\* width/2 - depth/2 (right); z is 0.
C17_GrooveBoxBySide ==
    (Returned("createGrooveGeometry") /\ call.side \in Sides)
    => LET halfWidth == RHalf(call.board.dimensions.width)
           halfHeight == RHalf(call.board.dimensions.height)
           thickness == call.board.dimensions.thickness
           segStart == call.segment.start
           segWidth == call.segment.width
           halfDepth == RHalf(call.grooveDepth)
           centre(halfExtent) ==
               RAdd(RSub(segStart, halfExtent), RHalf(segWidth))
       IN  /\ result.position[3] = RZero
           /\ call.side \in {"top", "bottom"} =>
                /\ result.size = <<segWidth, call.grooveDepth, thickness>>
                /\ result.position[1] = centre(halfWidth)
           /\ call.side \in {"left", "right"} =>
                /\ result.size = <<call.grooveDepth, segWidth, thickness>>
                /\ result.position[2] = centre(halfHeight)
           /\ call.side = "top" =>
                result.position[2] = RSub(halfHeight, halfDepth)
           /\ call.side = "bottom" =>
                result.position[2] = RSub(halfDepth, halfHeight)
           /\ call.side = "left" =>
                result.position[1] = RSub(halfDepth, halfWidth)
           /\ call.side = "right" =>
                result.position[1] = RSub(halfWidth, halfDepth)

\* C17 witness: a groove on the right side that starts 10 from the side's
\* zero was mapped to a box
C17_Witness ==
    /\ Returned("createGrooveGeometry")
    /\ call.side = "right"
    /\ call.segment.start = RInt(10)
    /\ "position" \in DOMAIN result

\* A token that is a number: digits and nothing else
IsNumber(token) == token # <<>> /\ \A k \in 1..Len(token) : token[k] \in Digits

\* C18: parseGeometryArray splits on commas, trims the tokens and drops the
\* blank ones; it returns valid:false if a remaining token is not a number or
\* no token remains, and otherwise valid:true with the numbers in input order.
C18_ParseGeometryArray ==
    Returned("parseGeometryArray")
    => LET tokens == Tokens(call.input)
           rejected ==
               \/ tokens = <<>>
               \/ \E k \in 1..Len(tokens) : ~IsNumber(tokens[k])
       IN  /\ rejected => ~result.valid
           /\ ~rejected =>
                /\ result.valid
                /\ Len(result.values) = Len(tokens)
                /\ \A k \in 1..Len(tokens) :
                     result.values[k] = RInt(Decimal(tokens[k]))

-----------------------------------------------------------------------------
(* Further properties of the carving pass (Spec)                           *)

\* A side whose joint the generator rejects
InvalidSide(board, side) ==
    /\ board.joints[side] # NoJoint
    /\ ~GenerateSegments(board.joints[side],
                         GetSideDimension(board, side)).valid

\* C19: a side whose generator result is not valid contributes no groove
\* solids, and the pass still collects and subtracts the grooves of the
\* board's other sides and of the other boards.
C19_InvalidSideIsLocal ==
    \A id \in DOMAIN boards \ csgFailed : \A side \in Sides :
        InvalidSide(boards[id], side) =>
            /\ SideGrooves(boards[id], side) = <<>>
            /\ boards[id].mesh.cuts =
                 CollectGroovesFrom(
                     [boards[id] EXCEPT !.joints[side] = NoJoint], 1)
            /\ \A other \in DOMAIN boards \ (csgFailed \cup {id}) :
                 \A valid \in Sides :
                     ~InvalidSide(boards[other], valid) =>
                         \A k \in 1..Len(SideGrooves(boards[other], valid)) :
                             \E c \in 1..Len(boards[other].mesh.cuts) :
                                 boards[other].mesh.cuts[c] =
                                     SideGrooves(boards[other], valid)[k]

\* C19 witness: a board with a rejected side has been carved with the
\* grooves of another side
C19_Witness ==
    \E id \in DOMAIN boards \ csgFailed : \E side \in Sides :
        /\ InvalidSide(boards[id], side)
        /\ boards[id].mesh.cuts # <<>>

-----------------------------------------------------------------------------
(* The editors at the level of object references (SpecHist)                *)
(*                                                                         *)
(* heap[a] is the object at address a: a dimensions object, a JointConfig, *)
(* the joint Map of a board ([entries |-> side -> address, 0 for none]) or *)
(* a Board ([id, dimensions |-> address, joints |-> address]).  In this    *)
(* specification boards maps a board id to the address of its Board, as    *)
(* state.boards does, and a snapshot of the history is the shallow copy    *)
(* that cloneState makes.  Meshes are left out.                            *)

HistoryLimit == 50

NoAddress == 0

EmptyJointMap == [entries |-> [side \in Sides |-> NoAddress]]

\* cloneState() of the state made of bs, sel and side
Snapshot(bs, sel, side) ==
    [boards |-> bs, selectedBoardId |-> sel, selectedSide |-> side]

\* A clone that returns the object itself
CloneJointInPlace(h, a) == [heap |-> h, addr |-> a]

\* JointConfig.clone(): a new object with the same fields
CloneJoint(h, a) == [heap |-> Append(h, h[a]), addr |-> Len(h) + 1]

\* Board.clone(): new Board(id, {...dimensions}) allocates a dimensions
\* object and, in the constructor, an empty joint Map, which
\* new Map(this.joints) then replaces
CloneBoard(h, a) ==
    LET board == h[a]
        h1 == Append(h, h[board.dimensions])
        h2 == Append(h1, EmptyJointMap)
        h3 == Append(h2, h[board.joints])
        h4 == Append(h3, [id |-> board.id, dimensions |-> Len(h1),
                          joints |-> Len(h3)])
    IN  [heap |-> h4, addr |-> Len(h4)]

\* setState(updates) on the merged state: the history is cut after the
\* current index, the snapshot is pushed and the oldest entry dropped beyond
\* the limit
RefSetState(h, bs, sel, side) ==
    LET kept == SubSeq(history, 1, historyIndex)
        pushed == Append(kept, Snapshot(bs, sel, side))
        limited == IF Len(pushed) > HistoryLimit THEN Tail(pushed) ELSE pushed
    IN  /\ heap' = h
        /\ boards' = bs
        /\ selectedBoardId' = sel
        /\ selectedSide' = side
        /\ history' = limited
        /\ historyIndex' = Len(limited)
        /\ ops' = ops + 1
        /\ UNCHANGED <<csgFailed, prePass, call, result, appVars>>

\* createBoard()
RefCreateBoard ==
    /\ ops < MaxOps
    /\ Cardinality(DOMAIN boards) < MaxBoards
    /\ LET maxId == IF DOMAIN boards = {} THEN 0 ELSE Max(DOMAIN boards)
           id == maxId + 1
           h1 == Append(heap, DefaultDimensions)
           h2 == Append(h1, EmptyJointMap)
           h3 == Append(h2, [id |-> id, dimensions |-> Len(h1),
                             joints |-> Len(h2)])
       IN  RefSetState(h3, boards @@ (id :> Len(h3)), id, selectedSide)

\* updateBoard(id, updates): the clone receives the updates and takes the
\* board's place in a new boards Map
RefUpdateBoard(h, id, updates) ==
    LET cloned == CloneBoard(h, boards[id])
        assigned == [cloned.heap EXCEPT ![cloned.addr] = Assign(@, updates)]
    IN  RefSetState(assigned, [boards EXCEPT ![id] = cloned.addr],
                    selectedBoardId, selectedSide)

\* The change handler of a dimension field: {...currentBoard.dimensions,
\* [prop]: value} is a new object
RefChangeDimension(id, prop, value) ==
    /\ ops < MaxOps
    /\ id \in DOMAIN boards
    /\ LET current == heap[heap[boards[id]].dimensions]
           h1 == Append(heap, [current EXCEPT ![prop] = value])
       IN  RefUpdateBoard(h1, id, [dimensions |-> Len(h1)])

\* deleteBoard(id)
RefDeleteBoard(id) ==
    /\ ops < MaxOps
    /\ id \in DOMAIN boards
    /\ LET bs == [b \in DOMAIN boards \ {id} |-> boards[b]]
       IN  IF selectedBoardId = id
           THEN RefSetState(heap, bs, NoBoard, NoSide)
           ELSE RefSetState(heap, bs, selectedBoardId, selectedSide)

\* selectBoard(id)
RefSelectBoard(id) ==
    /\ ops < MaxOps
    /\ id \in DOMAIN boards
    /\ RefSetState(heap, boards, id, selectedSide)

\* selectSide(side)
RefSelectSide(side) ==
    /\ ops < MaxOps
    /\ selectedBoardId \in DOMAIN boards
    /\ RefSetState(heap, boards, selectedBoardId, side)

\* updateJoint(side, updates) from a handler of the joint form
RefUpdateJoint(updates) ==
    /\ ops < MaxOps
    /\ selectedBoardId \in DOMAIN boards
    /\ selectedSide \in Sides
    /\ LET board == heap[boards[selectedBoardId]]
           joints == heap[board.joints]
           stored == joints.entries[selectedSide]
           created == [NewJointConfig(selectedSide) EXCEPT
                         !.grooveDepth = heap[board.dimensions].thickness]
           h1 == IF stored = NoAddress THEN Append(heap, created) ELSE heap
           joint == IF stored = NoAddress THEN Len(h1) ELSE stored
           cloned == CloneJoint(h1, joint)
           h2 == [cloned.heap EXCEPT ![cloned.addr] = Assign(@, updates)]
           h3 == Append(h2, [joints EXCEPT !.entries[selectedSide] = cloned.addr])
       IN  RefUpdateBoard(h3, selectedBoardId, [joints |-> Len(h3)])

\* undo()
Undo ==
    /\ ops < MaxOps
    /\ historyIndex > 1
    /\ historyIndex' = historyIndex - 1
    /\ boards' = history[historyIndex - 1].boards
    /\ selectedBoardId' = history[historyIndex - 1].selectedBoardId
    /\ selectedSide' = history[historyIndex - 1].selectedSide
    /\ ops' = ops + 1
    /\ UNCHANGED <<heap, history, csgFailed, prePass, call, result, appVars>>

\* redo()
Redo ==
    /\ ops < MaxOps
    /\ historyIndex < Len(history)
    /\ historyIndex' = historyIndex + 1
    /\ boards' = history[historyIndex + 1].boards
    /\ selectedBoardId' = history[historyIndex + 1].selectedBoardId
    /\ selectedSide' = history[historyIndex + 1].selectedSide
    /\ ops' = ops + 1
    /\ UNCHANGED <<heap, history, csgFailed, prePass, call, result, appVars>>

\* updates made by the handlers of the joint form
JointUpdates ==
    {[fingerCount |-> 3], [mode |-> "variable"],
     [geometry |-> <<RInt(60), RInt(40)>>]}

\* The heap that loadFromLocalStorage builds for a saved project of one board
\* with a joint on its top side
LoadedHeap ==
    <<DefaultDimensions,
      NewJointConfig("top"),
      [entries |-> [side \in Sides |-> IF side = "top" THEN 2 ELSE NoAddress]],
      [id |-> 1, dimensions |-> 1, joints |-> 3]>>

\* The application starts with an empty state or with the saved project
InitHist ==
    /\ \/ /\ heap = <<>>
          /\ boards = <<>>
          /\ selectedBoardId = NoBoard
          /\ selectedSide = NoSide
       \/ /\ heap = LoadedHeap
          /\ boards = (1 :> 4)
          /\ selectedBoardId = 1
          /\ selectedSide = "top"
    /\ history = <<Snapshot(boards, selectedBoardId, selectedSide)>>
    /\ historyIndex = 1
    /\ csgFailed = {}
    /\ prePass = <<>>
    /\ ops = 0
    /\ call = [fn |-> "none"]
    /\ result = NoResult
    /\ AppIdle

NextHist ==
    \/ RefCreateBoard
    \/ \E id \in BoardIds, prop \in DimensionProps, value \in DimensionInputs :
         RefChangeDimension(id, prop, value)
    \/ \E id \in BoardIds : RefDeleteBoard(id)
    \/ \E id \in BoardIds : RefSelectBoard(id)
    \/ \E side \in {"top", "left"} : RefSelectSide(side)
    \/ \E updates \in JointUpdates : RefUpdateJoint(updates)
    \/ Undo
    \/ Redo

SpecHist == InitHist /\ [][NextHist]_vars

\* What a Board object holds: its dimensions and the joint of each side
BoardContents(h, a) ==
    [dimensions |-> h[h[a].dimensions],
     joints |-> [side \in Sides |->
                   IF h[h[a].joints].entries[side] = NoAddress THEN NoJoint
                   ELSE h[h[h[a].joints].entries[side]]]]

\* The joints and dimensions a snapshot records, board by board
Recorded(h, snapshot) ==
    [id \in DOMAIN snapshot.boards |-> BoardContents(h, snapshot.boards[id])]

\* C20: no step modifies an existing JointConfig, joint Map or dimensions
\* object, so the joints and dimensions that every snapshot of the history
\* records are the same after the step as before it.
C20_SnapshotsUnchangedByEdits ==
    [][/\ \A a \in 1..Len(heap) : heap'[a] = heap[a]
       /\ \A i \in 1..Len(history) :
            Recorded(heap', history[i]) = Recorded(heap, history[i])]_vars

\* C20 witness: after an edit of a joint, an earlier snapshot still holds the
\* board with the joint it had, which differs from the board's present joint
C20_Witness ==
    \E i \in 1..(historyIndex - 1) : \E id \in DOMAIN boards :
        /\ id \in DOMAIN history[i].boards
        /\ history[i].boards[id] # boards[id]
        /\ BoardContents(heap, history[i].boards[id]).joints["top"] # NoJoint
        /\ BoardContents(heap, history[i].boards[id]).joints["top"]
             # BoardContents(heap, boards[id]).joints["top"]

-----------------------------------------------------------------------------
(* Export and import (SpecGen)                                             *)

\* C21: importFromJSON(exportToJSON()) yields boards whose joints have, per
\* side, the same side, mode, fingerWidth, fingerCount, centerKeyed, start,
\* geometry (same order) and grooveDepth (including null) as before the
\* export.
C21_ExportImportRoundTrip ==
    Returned("exportImport")
    => /\ DOMAIN result.boards = DOMAIN call.boards
       /\ \A id \in DOMAIN call.boards : \A side \in Sides :
            result.boards[id].joints[side] = call.boards[id].joints[side]

\* The box reaches no further than half the extent from the centre, on axis
\* k (1: x, 2: y, 3: z)
WithinExtent(box, k, extent) ==
    RLe(RAdd(RAbs(box.position[k]), RHalf(box.size[k])), RHalf(extent))

\* C25: every groove solid produced for a side of a board with positive
\* dimensions lies inside the board's base box: within width/2 in x, within
\* height/2 in y and within thickness/2 in z.
C25_GroovesInsideBoard ==
    Returned("sideGrooves")
    => \A k \in 1..Len(result.grooves) :
         /\ WithinExtent(result.grooves[k], 1, call.board.dimensions.width)
         /\ WithinExtent(result.grooves[k], 2, call.board.dimensions.height)
         /\ WithinExtent(result.grooves[k], 3, call.board.dimensions.thickness)

-----------------------------------------------------------------------------
(* The state manager on its own (SpecStack)                                *)
(*                                                                         *)
(* The state is changed by the transparency toggle, whose every change     *)
(* flips showUnselectedTransparent, by undo and redo, and by the import of *)
(* a project; nothing bounds the number of calls, so the history fills up. *)

\* cloneState(): the content of a state
StateRecord(bs, sel, side, transparent) ==
    [boards |-> bs, selectedBoardId |-> sel, selectedSide |-> side,
     showUnselectedTransparent |-> transparent]

\* A history that is never cut down to the limit
PushHistoryNoEviction(hist, index, snapshot) ==
    LET pushed == Append(SubSeq(hist, 1, index), snapshot)
    IN  [history |-> pushed, historyIndex |-> Len(pushed)]

\* A history that keeps the snapshots after the cursor on a new write
PushHistoryKeepTail(hist, index, snapshot) ==
    LET pushed == Append(hist, snapshot)
        limited == IF Len(pushed) > HistoryLimit THEN Tail(pushed) ELSE pushed
    IN  [history |-> limited, historyIndex |-> Len(limited)]

\* The history part of setState: the snapshots after the cursor are sliced
\* off, the new snapshot is pushed and becomes the cursor, and beyond the limit
\* the oldest is shifted out and the cursor decremented
PushHistory(hist, index, snapshot) ==
    LET kept == IF index < Len(hist) THEN SubSeq(hist, 1, index) ELSE hist
        pushed == Append(kept, snapshot)
        cursor == Len(pushed)
    IN  IF Len(pushed) > HistoryLimit
        THEN [history |-> Tail(pushed), historyIndex |-> cursor - 1]
        ELSE [history |-> pushed, historyIndex |-> cursor]

\* An undo or redo that moves the cursor and leaves the state as it is
RestoreNothing(hist, index) ==
    StateRecord(boards, selectedBoardId, selectedSide, showUnselectedTransparent)

\* this.state = this.history[this.historyIndex]
Restore(hist, index) == hist[index]

\* What a call did: whether it notified the listeners, discarded snapshots
\* after the cursor, or evicted the oldest snapshot
Did(op, notified, discarded, evicted) ==
    [op |-> op, notified |-> notified, discarded |-> discarded,
     evicted |-> evicted]

StackUnchanged ==
    UNCHANGED <<csgFailed, prePass, ops, call, result, heap, scene, meshCount,
                timers, adaptingJoint, running, task>>

\* The state becomes the record
BecomeState(record) ==
    /\ boards' = record.boards
    /\ selectedBoardId' = record.selectedBoardId
    /\ selectedSide' = record.selectedSide
    /\ showUnselectedTransparent' = record.showUnselectedTransparent

\* setState(updates) on the merged state
StackSetState(record) ==
    LET pushed == PushHistory(history, historyIndex, record)
    IN  /\ BecomeState(record)
        /\ history' = pushed.history
        /\ historyIndex' = pushed.historyIndex
        /\ lastCall' = Did("setState", TRUE, historyIndex < Len(history),
                           Len(pushed.history) <= historyIndex)
        /\ StackUnchanged

\* The change handler of the transparency toggle; the checkbox shows the
\* state, so a change hands over its negation
ToggleTransparency ==
    StackSetState(StateRecord(boards, selectedBoardId, selectedSide,
                              ~showUnselectedTransparent))

\* undo(), whatever the cursor
UndoCall ==
    /\ IF historyIndex > 1
       THEN /\ historyIndex' = historyIndex - 1
            /\ BecomeState(Restore(history, historyIndex - 1))
            /\ lastCall' = Did("undo", TRUE, FALSE, FALSE)
       ELSE /\ UNCHANGED <<historyIndex, boards, selectedBoardId, selectedSide,
                           showUnselectedTransparent>>
            /\ lastCall' = Did("undo", FALSE, FALSE, FALSE)
    /\ UNCHANGED history
    /\ StackUnchanged

\* redo(), whatever the cursor
RedoCall ==
    /\ IF historyIndex < Len(history)
       THEN /\ historyIndex' = historyIndex + 1
            /\ BecomeState(Restore(history, historyIndex + 1))
            /\ lastCall' = Did("redo", TRUE, FALSE, FALSE)
       ELSE /\ UNCHANGED <<historyIndex, boards, selectedBoardId, selectedSide,
                           showUnselectedTransparent>>
            /\ lastCall' = Did("redo", FALSE, FALSE, FALSE)
    /\ UNCHANGED history
    /\ StackUnchanged

\* The states that a saved or exported project sets; a document without the
\* toggle sets it to false
StoredStates ==
    {StateRecord(ProjectFixedTop.boards, ProjectFixedTop.selectedBoardId,
                 ProjectFixedTop.selectedSide, transparent) :
        transparent \in BOOLEAN}

\* importFromJSON(jsonString) of a well-formed document
ImportCall(record) ==
    /\ BecomeState(record)
    /\ history' = <<record>>
    /\ historyIndex' = 1
    /\ lastCall' = Did("import", TRUE, FALSE, FALSE)
    /\ StackUnchanged

\* new StateManager(), then loadFromLocalStorage, which finds nothing or a
\* saved project
InitStack ==
    /\ \E record \in StoredStates \cup {StateRecord(<<>>, NoBoard, NoSide, FALSE)} :
         /\ boards = record.boards
         /\ selectedBoardId = record.selectedBoardId
         /\ selectedSide = record.selectedSide
         /\ showUnselectedTransparent = record.showUnselectedTransparent
         /\ history = <<record>>
    /\ historyIndex = 1
    /\ lastCall = NoCall
    /\ csgFailed = {}
    /\ prePass = <<>>
    /\ ops = 0
    /\ call = [fn |-> "none"]
    /\ result = NoResult
    /\ heap = <<>>
    /\ scene = {}
    /\ meshCount = 0
    /\ timers = <<>>
    /\ adaptingJoint = NoKey
    /\ running = <<>>
    /\ task = <<>>

NextStack ==
    \/ ToggleTransparency
    \/ UndoCall
    \/ RedoCall
    \/ \E record \in StoredStates : ImportCall(record)

SpecStack == InitStack /\ [][NextStack]_vars

CurrentState ==
    StateRecord(boards, selectedBoardId, selectedSide, showUnselectedTransparent)

\* C22: the history holds between 1 and 50 snapshots and the cursor is one of
\* them (0 <= historyIndex <= history.length - 1 in the code's counting); a
\* setState on a full history whose cursor is at the newest snapshot evicts
\* the oldest snapshot, and the cursor then points at the new, newest one.
C22_HistoryBounded ==
    /\ [](/\ Len(history) \in 1..HistoryLimit
          /\ historyIndex \in 1..Len(history))
    /\ [][(/\ lastCall'.op = "setState"
           /\ Len(history) = HistoryLimit
           /\ historyIndex = HistoryLimit)
          => /\ Len(history') = HistoryLimit
             /\ SubSeq(history', 1, HistoryLimit - 1) = Tail(history)
             /\ historyIndex' = HistoryLimit
             /\ history'[historyIndex'] = CurrentState']_vars

\* C22 witness: a setState has evicted the oldest snapshot
C22_Witness ==
    /\ lastCall.op = "setState"
    /\ lastCall.evicted
    /\ Len(history) = HistoryLimit

\* C23: a setState made while the cursor is not at the newest snapshot keeps
\* the snapshots up to the cursor, in order, and appends the new one in
\* place of the later ones; after any setState the cursor is at the last
\* snapshot, and a redo made there changes nothing.
C23_WriteDiscardsRedoTail ==
    /\ [][lastCall'.op = "setState"
          => /\ historyIndex' = Len(history')
             /\ history'[historyIndex'] = CurrentState'
             /\ historyIndex < Len(history) =>
                  /\ Len(history') = historyIndex + 1
                  /\ SubSeq(history', 1, historyIndex)
                       = SubSeq(history, 1, historyIndex)]_vars
    /\ [][(lastCall.op = "setState" /\ lastCall'.op = "redo")
          => UNCHANGED <<boards, selectedBoardId, selectedSide,
                         showUnselectedTransparent, history, historyIndex>>]_vars

\* C23 witness: a setState has discarded snapshots after a cursor that was
\* not at the first snapshot
C23_Witness ==
    /\ lastCall.op = "setState"
    /\ lastCall.discarded
    /\ Len(history) > 2

\* C29: the state has the content of the snapshot at the cursor; an undo puts
\* the cursor before the snapshot of the state it leaves, which a redo then
\* restores; an undo at the first snapshot and a redo at the last change
\* nothing and notify no listener.
C29_StateIsSnapshotAtCursor ==
    /\ [](CurrentState = history[historyIndex])
    /\ [][(lastCall'.op = "undo" /\ historyIndex > 1)
          => /\ history' = history
             /\ history'[historyIndex' + 1] = CurrentState]_vars
    /\ [][(lastCall'.op = "redo" /\ historyIndex < Len(history))
          => /\ history' = history
             /\ CurrentState' = history[historyIndex + 1]]_vars
    /\ [][(\/ lastCall'.op = "undo" /\ historyIndex = 1
           \/ lastCall'.op = "redo" /\ historyIndex = Len(history))
          => /\ ~lastCall'.notified
             /\ UNCHANGED <<boards, selectedBoardId, selectedSide,
                            showUnselectedTransparent, history,
                            historyIndex>>]_vars

\* C29 witness: a redo has restored a state, after an import, with snapshots
\* on both sides of the cursor
C29_Witness ==
    /\ lastCall.op = "redo"
    /\ lastCall.notified
    /\ boards # <<>>
    /\ historyIndex \in 2..(Len(history) - 1)

-----------------------------------------------------------------------------
(* The meshes of the boards and the scene (SpecScene)                      *)
(*                                                                         *)
(* heap[a] is the Board object at address a: [id, mesh, grooved], where    *)
(* mesh is the number of the THREE.Mesh the object refers to (NoMeshId for *)
(* null) and grooved tells whether its joints yield any groove.  A Board   *)
(* object is shared by the state and by the snapshots that hold it, and a  *)
(* pass assigns to its mesh field.  scene is the set of meshes added to    *)
(* and not removed from the THREE scene; a world is a record of heap,      *)
(* scene and meshCount.                                                    *)

NoMeshId == 0

World == [heap |-> heap, scene |-> scene, meshCount |-> meshCount]

\* new THREE.Mesh(...) assigned to the mesh field of the object at a, and
\* scene3D.addMesh of it
AddNewMesh(w, a) ==
    [heap |-> [w.heap EXCEPT ![a].mesh = w.meshCount + 1],
     scene |-> w.scene \cup {w.meshCount + 1},
     meshCount |-> w.meshCount + 1]

\* scene3D.removeMesh(board.mesh)
RemoveMesh(w, a) == [w EXCEPT !.scene = @ \ {w.heap[a].mesh}]

\* The body of boards.forEach in visualizeAllBoards for the Board at a: a
\* board without a mesh gets one, the mesh of any other is removed and
\* replaced by a new base mesh; then, unless the CSG library throws, the
\* grooves are subtracted into one more new mesh
SceneVisualizeBoard(w, a, throws) ==
    LET based == IF w.heap[a].mesh = NoMeshId THEN AddNewMesh(w, a)
                 ELSE AddNewMesh(RemoveMesh(w, a), a)
    IN  IF based.heap[a].grooved /\ ~throws
        THEN AddNewMesh(RemoveMesh(based, a), a)
        ELSE based

RECURSIVE ScenePass(_, _, _, _)
\* visualizeAllBoards over the boards bs with the ids
ScenePass(w, bs, ids, fails) ==
    IF ids = {} THEN w
    ELSE LET id == Min(ids)
         IN  ScenePass(SceneVisualizeBoard(w, bs[id], id \in fails), bs,
                       ids \ {id}, fails)

\* The application's listener: a pass when the state has boards
SceneListener(w, bs, fails) ==
    IF DOMAIN bs # {} THEN ScenePass(w, bs, DOMAIN bs, fails) ELSE w

RECURSIVE RecreateMeshes(_, _, _)
\* state.boards.forEach of refreshScene: the mesh of each board is removed
\* and a new one created and added
RecreateMeshes(w, bs, ids) ==
    IF ids = {} THEN w
    ELSE LET a == bs[Min(ids)]
             removed == IF w.heap[a].mesh # NoMeshId THEN RemoveMesh(w, a) ELSE w
         IN  RecreateMeshes(AddNewMesh(removed, a), bs, ids \ {Min(ids)})

\* refreshScene()
RefreshScene(w, bs, fails) ==
    SceneListener(RecreateMeshes(w, bs, DOMAIN bs), bs, fails)

\* The boards whose pass calls the CSG library
GroovedIds(h, bs) == {id \in DOMAIN bs : h[bs[id]].grooved}

SceneUnchanged ==
    UNCHANGED <<csgFailed, prePass, call, result, showUnselectedTransparent,
                lastCall, timers, adaptingJoint, running, task>>

\* The world w becomes the program's
BecomeWorld(w) ==
    /\ heap' = w.heap
    /\ scene' = w.scene
    /\ meshCount' = w.meshCount

\* setState({boards: bs, selectedBoardId: sel}) in the world w, and the pass
\* of the application's listener
SceneSetState(w, bs, sel, side) ==
    \E fails \in SUBSET GroovedIds(w.heap, bs) :
        LET pushed == PushHistory(history, historyIndex, Snapshot(bs, sel, side))
        IN  /\ BecomeWorld(SceneListener(w, bs, fails))
            /\ boards' = bs
            /\ selectedBoardId' = sel
            /\ selectedSide' = side
            /\ history' = pushed.history
            /\ historyIndex' = pushed.historyIndex
            /\ ops' = ops + 1
            /\ SceneUnchanged

\* createBoard(): the new Board gets a mesh, which is added to the scene
SceneCreateBoard ==
    /\ ops < MaxOps
    /\ Cardinality(DOMAIN boards) < MaxBoards
    /\ LET maxId == IF DOMAIN boards = {} THEN 0 ELSE Max(DOMAIN boards)
           id == maxId + 1
           a == Len(heap) + 1
           w0 == [World EXCEPT
                    !.heap = Append(heap, [id |-> id, mesh |-> NoMeshId,
                                           grooved |-> FALSE])]
       IN  SceneSetState(AddNewMesh(w0, a), boards @@ (id :> a), id,
                         selectedSide)

\* updateBoard(id, updates): the clone takes over the mesh of the board
\* (updateMesh gives that mesh a new geometry) or, if there is none, gets a
\* mesh of its own
SceneUpdateBoard(id, grooved) ==
    LET board == heap[boards[id]]
        a == Len(heap) + 1
        w0 == [World EXCEPT
                 !.heap = Append(heap, [id |-> board.id, mesh |-> board.mesh,
                                        grooved |-> grooved])]
        w1 == IF board.mesh # NoMeshId THEN w0 ELSE AddNewMesh(w0, a)
    IN  SceneSetState(w1, [boards EXCEPT ![id] = a], selectedBoardId,
                      selectedSide)

\* The change handler of a dimension field
SceneChangeDimension(id) ==
    /\ ops < MaxOps
    /\ id \in DOMAIN boards
    /\ SceneUpdateBoard(id, heap[boards[id]].grooved)

\* updateJoint(side, updates) with updates that give the side grooves
SceneUpdateJoint ==
    /\ ops < MaxOps
    /\ selectedBoardId \in DOMAIN boards
    /\ SceneUpdateBoard(selectedBoardId, TRUE)

\* deleteBoard(id)
SceneDeleteBoard(id) ==
    /\ ops < MaxOps
    /\ id \in DOMAIN boards
    /\ LET a == boards[id]
           w0 == IF heap[a].mesh # NoMeshId THEN RemoveMesh(World, a) ELSE World
           bs == [b \in DOMAIN boards \ {id} |-> boards[b]]
       IN  IF selectedBoardId = id
           THEN SceneSetState(w0, bs, NoBoard, NoSide)
           ELSE SceneSetState(w0, bs, selectedBoardId, selectedSide)

\* The undo button: stateManager.undo(), whose listeners run a pass if it
\* moved the cursor, then refreshScene()
SceneUndo ==
    /\ ops < MaxOps
    /\ LET moved == historyIndex > 1
           index == IF moved THEN historyIndex - 1 ELSE historyIndex
           restored == IF moved THEN history[index]
                       ELSE Snapshot(boards, selectedBoardId, selectedSide)
           bs == restored.boards
       IN  \E fails1 \in SUBSET GroovedIds(heap, bs) :
           \E fails2 \in SUBSET GroovedIds(heap, bs) :
             LET notified == IF moved THEN SceneListener(World, bs, fails1)
                             ELSE World
             IN  /\ BecomeWorld(RefreshScene(notified, bs, fails2))
                 /\ boards' = bs
                 /\ selectedBoardId' = restored.selectedBoardId
                 /\ selectedSide' = restored.selectedSide
                 /\ historyIndex' = index
                 /\ ops' = ops + 1
                 /\ UNCHANGED history
                 /\ SceneUnchanged

\* The redo button: stateManager.redo(), then refreshScene()
SceneRedo ==
    /\ ops < MaxOps
    /\ LET moved == historyIndex < Len(history)
           index == IF moved THEN historyIndex + 1 ELSE historyIndex
           restored == IF moved THEN history[index]
                       ELSE Snapshot(boards, selectedBoardId, selectedSide)
           bs == restored.boards
       IN  \E fails1 \in SUBSET GroovedIds(heap, bs) :
           \E fails2 \in SUBSET GroovedIds(heap, bs) :
             LET notified == IF moved THEN SceneListener(World, bs, fails1)
                             ELSE World
             IN  /\ BecomeWorld(RefreshScene(notified, bs, fails2))
                 /\ boards' = bs
                 /\ selectedBoardId' = restored.selectedBoardId
                 /\ selectedSide' = restored.selectedSide
                 /\ historyIndex' = index
                 /\ ops' = ops + 1
                 /\ UNCHANGED history
                 /\ SceneUnchanged

\* selectBoard(id)
SceneSelectBoard(id) ==
    /\ ops < MaxOps
    /\ id \in DOMAIN boards
    /\ SceneSetState(World, boards, id, selectedSide)

\* The Board objects that loadFromLocalStorage builds for a saved project
\* of two boards, the first with grooves; they have no mesh
LoadedBoards ==
    <<[id |-> 1, mesh |-> NoMeshId, grooved |-> TRUE],
      [id |-> 2, mesh |-> NoMeshId, grooved |-> FALSE]>>

\* The application starts with an empty state and an empty scene, or with
\* the saved project: loadFromLocalStorage notifies the listeners, which run
\* a pass, and loadState then calls refreshScene
InitScene ==
    /\ \/ /\ boards = <<>>
          /\ selectedBoardId = NoBoard
          /\ heap = <<>>
          /\ scene = {}
          /\ meshCount = 0
       \/ /\ boards = (1 :> 1) @@ (2 :> 2)
          /\ selectedBoardId = 1
          /\ \E fails1 \in SUBSET {1} : \E fails2 \in SUBSET {1} :
               LET empty == [heap |-> LoadedBoards, scene |-> {}, meshCount |-> 0]
                   loaded == RefreshScene(SceneListener(empty, boards, fails1),
                                          boards, fails2)
               IN  /\ heap = loaded.heap
                   /\ scene = loaded.scene
                   /\ meshCount = loaded.meshCount
    /\ selectedSide = NoSide
    /\ history = <<Snapshot(boards, selectedBoardId, selectedSide)>>
    /\ historyIndex = 1
    /\ csgFailed = {}
    /\ prePass = <<>>
    /\ ops = 0
    /\ call = [fn |-> "none"]
    /\ result = NoResult
    /\ showUnselectedTransparent = FALSE
    /\ lastCall = NoCall
    /\ timers = <<>>
    /\ adaptingJoint = NoKey
    /\ running = <<>>
    /\ task = <<>>

NextScene ==
    \/ SceneCreateBoard
    \/ \E id \in BoardIds : SceneChangeDimension(id)
    \/ SceneUpdateJoint
    \/ \E id \in BoardIds : SceneDeleteBoard(id)
    \/ \E id \in BoardIds : SceneSelectBoard(id)
    \/ SceneUndo
    \/ SceneRedo

SpecScene == InitScene /\ [][NextScene]_vars

\* The meshes owned by the boards of the current state
OwnedMeshes == {heap[boards[id]].mesh : id \in DOMAIN boards}

\* C26: after every completed user operation the meshes in the scene are
\* exactly the meshes of the boards of the current state, one per board.
C26_SceneHoldsCurrentMeshes ==
    /\ scene = OwnedMeshes
    /\ NoMeshId \notin OwnedMeshes
    /\ Cardinality(scene) = Cardinality(DOMAIN boards)

-----------------------------------------------------------------------------
(* The tasks of the event loop (SpecLoop)                                  *)
(*                                                                         *)
(* A task is a user event or a fired timer; it runs to completion, every   *)
(* listener call included, before the next task starts.  The steps of a    *)
(* task are followed one listener at a time: running holds, for every      *)
(* notifyListeners call in progress, the listeners it has not called yet,  *)
(* and task holds what the handler does after the call it is in returns.   *)
(* refreshScene, which follows undo and redo, changes the scene only and   *)
(* is left out here.                                                       *)

\* The listeners in the order of their subscription
Listeners == <<"boardEditor", "jointEditor", "app">>

\* `${board.id}-${side}` and `${board.id}-${side}-grooveDepth`
WidthKey(id, side) == <<id, side>>
DepthKey(id, side) == <<id, side, "grooveDepth">>

NoUpdates == [none |-> TRUE]

\* setTimeout(() => { adaptingJoint = key; updateJoint(side, updates); ... }, 0)
AdaptTimer(key, side, updates) ==
    [kind |-> "adapt", key |-> key, side |-> side, updates |-> updates]

\* setTimeout(() => { if (adaptingJoint === key) adaptingJoint = null }, 100)
ClearTimer(key) ==
    [kind |-> "clear", key |-> key, side |-> NoSide, updates |-> NoUpdates]

\* The finger widths, finger counts, groove depths and board dimensions of
\* the joints whose adaptation is followed
AdaptWidths == {RInt(10), RInt(11), Rat(11, 2), RZero, RInt(-5)}
AdaptCounts == {5, 1, 0}
AdaptDepths == {Null, RInt(25), RInt(5)}
AdaptDimensions ==
    {DefaultDimensions,
     [width |-> RInt(2), height |-> RInt(30), thickness |-> RInt(20)]}

\* The side dimensions of these boards, and the widths their joints take:
\* the widths entered and the widths suggested
AdaptSideDimensions ==
    {GetSideDimension([dimensions |-> d], side) :
        d \in AdaptDimensions, side \in Sides}
AdaptedWidths ==
    AdaptWidths
    \cup {CalculateOptimalFingerWidth(n, d) :
            n \in AdaptCounts, d \in AdaptSideDimensions}

\* validateFixedJoint reads the finger width and the finger count of the
\* joint; its results for these joints are computed once
FixedValidations ==
    [fingerWidth \in AdaptedWidths, fingerCount \in AdaptCounts,
     dimension \in AdaptSideDimensions |->
        ValidateFixedJoint([fingerWidth |-> fingerWidth,
                            fingerCount |-> fingerCount], dimension)]

\* ValidationUtils.validateFixedJoint(joint, dimension) as the render calls it
RenderValidation(joint, dimension) ==
    IF <<joint.fingerWidth, joint.fingerCount, dimension>>
           \in DOMAIN FixedValidations
    THEN FixedValidations[joint.fingerWidth, joint.fingerCount, dimension]
    ELSE ValidateFixedJoint(joint, dimension)

\* renderJointConfig: the finger-width correction it defers, if any
WidthCorrection(board, side, adapting) ==
    LET joint == JointOrNew(board, side)
        validation == RenderValidation(joint, GetSideDimension(board, side))
    IN  IF /\ joint.mode = "fixed"
           /\ ~validation.valid
           /\ "suggestedWidth" \in DOMAIN validation
           /\ RLt(WidthTolerance,
                  RAbs(RSub(joint.fingerWidth, validation.suggestedWidth)))
           /\ adapting # WidthKey(board.id, side)
        THEN <<AdaptTimer(WidthKey(board.id, side), side,
                          [fingerWidth |-> validation.suggestedWidth])>>
        ELSE <<>>

\* renderJointConfig: the groove-depth correction it defers, if any
DepthCorrection(board, side, adapting) ==
    LET joint == JointOrNew(board, side)
        boardThickness == board.dimensions.thickness
        currentGrooveDepth ==
            IF joint.grooveDepth = Null THEN boardThickness ELSE joint.grooveDepth
    IN  IF /\ RLt(boardThickness, currentGrooveDepth)
           /\ adapting # DepthKey(board.id, side)
        THEN <<AdaptTimer(DepthKey(board.id, side), side,
                          [grooveDepth |-> boardThickness])>>
        ELSE <<>>

\* JointEditor.render: the timers it sets, in the order it sets them
JointEditorRender(bs, sel, side, adapting) ==
    IF sel \notin DOMAIN bs \/ side \notin Sides
    THEN <<>>
    ELSE WidthCorrection(bs[sel], side, adapting)
         \o DepthCorrection(bs[sel], side, adapting)

LoopUnchanged == UNCHANGED <<csgFailed, prePass, result, heap, scene, meshCount>>

StateUnchanged ==
    UNCHANGED <<boards, selectedBoardId, selectedSide, showUnselectedTransparent,
                history, historyIndex>>

\* What a step of a task was
Step(op, key) == [op |-> op, key |-> key]

\* No task is running: the event loop picks the next one
Idle == running = <<>> /\ task = <<>>

\* setState up to notifyListeners, which starts calling the listeners
LoopSetState(bs, sel, side) ==
    LET record == StateRecord(bs, sel, side, showUnselectedTransparent)
        pushed == PushHistory(history, historyIndex, record)
    IN  /\ BecomeState(record)
        /\ history' = pushed.history
        /\ historyIndex' = pushed.historyIndex
        /\ running' = Append(running, Listeners)

\* JointEditor.updateJoint(side, updates): the board is the one selected when
\* the call is made; without one the call returns
LoopUpdateJoint(side, updates) ==
    IF selectedBoardId \in DOMAIN boards
    THEN LoopSetState(UpdateJoint(boards, selectedBoardId, side, updates),
                      selectedBoardId, selectedSide)
    ELSE StateUnchanged /\ UNCHANGED running

\* A user event starts a task
UserEvent(fn, restored) ==
    /\ Idle
    /\ ops < MaxOps
    /\ ops' = ops + 1
    /\ call' = [fn |-> fn, restored |-> restored]
    /\ lastCall' = Step("event", NoKey)
    /\ LoopUnchanged

\* A click on a board of the list
LoopSelectBoard(id) ==
    /\ UserEvent("selectBoard", FALSE)
    /\ id \in DOMAIN boards
    /\ LoopSetState(boards, id, selectedSide)
    /\ UNCHANGED <<timers, adaptingJoint, task>>

\* A click on a side button, shown while a board is selected
LoopSelectSide(side) ==
    /\ UserEvent("selectSide", FALSE)
    /\ selectedBoardId \in DOMAIN boards
    /\ LoopSetState(boards, selectedBoardId, side)
    /\ UNCHANGED <<timers, adaptingJoint, task>>

\* A change of the finger-width field: updateJoint, then autoAdaptFixedJoint
\* with the board and the side the form was rendered for
LoopChangeFingerWidth(newWidth) ==
    /\ UserEvent("fingerWidth", FALSE)
    /\ selectedBoardId \in DOMAIN boards
    /\ selectedSide \in Sides
    /\ JointOrNew(boards[selectedBoardId], selectedSide).mode = "fixed"
    /\ LoopUpdateJoint(selectedSide, [fingerWidth |-> newWidth])
    /\ task' = <<[kind |-> "autoAdapt", board |-> boards[selectedBoardId],
                  side |-> selectedSide]>>
    /\ UNCHANGED <<timers, adaptingJoint>>

\* The undo button: undo(), which notifies when it moved the cursor
LoopUndo ==
    /\ UserEvent("undo", historyIndex > 1)
    /\ IF historyIndex > 1
       THEN /\ historyIndex' = historyIndex - 1
            /\ BecomeState(Restore(history, historyIndex - 1))
            /\ running' = <<Listeners>>
       ELSE UNCHANGED <<historyIndex, boards, selectedBoardId, selectedSide,
                        showUnselectedTransparent, running>>
    /\ UNCHANGED <<history, timers, adaptingJoint, task>>

\* The redo button
LoopRedo ==
    /\ UserEvent("redo", historyIndex < Len(history))
    /\ IF historyIndex < Len(history)
       THEN /\ historyIndex' = historyIndex + 1
            /\ BecomeState(Restore(history, historyIndex + 1))
            /\ running' = <<Listeners>>
       ELSE UNCHANGED <<historyIndex, boards, selectedBoardId, selectedSide,
                        showUnselectedTransparent, running>>
    /\ UNCHANGED <<history, timers, adaptingJoint, task>>

\* running once the innermost notifyListeners call has called its next
\* listener
Popped ==
    LET depth == Len(running)
        rest == Tail(running[depth])
    IN  IF rest = <<>> THEN SubSeq(running, 1, depth - 1)
        ELSE [running EXCEPT ![depth] = rest]

\* A render that applies the first correction itself instead of deferring it
JointEditorListenerInline ==
    LET scheduled == JointEditorRender(boards, selectedBoardId, selectedSide,
                                       adaptingJoint)
    IN  IF scheduled = <<>>
        THEN /\ running' = Popped
             /\ StateUnchanged
             /\ UNCHANGED <<timers, adaptingJoint>>
        ELSE /\ adaptingJoint' = scheduled[1].key
             /\ LoopUpdateJoint(scheduled[1].side, scheduled[1].updates)
             /\ UNCHANGED timers

\* The JointEditor's listener: render, which defers its corrections
JointEditorListener ==
    /\ timers' = timers \o JointEditorRender(boards, selectedBoardId,
                                             selectedSide, adaptingJoint)
    /\ running' = Popped
    /\ StateUnchanged
    /\ UNCHANGED adaptingJoint

\* The BoardEditor's render and the application's listener (the carving
\* pass) call neither setState nor setTimeout
OtherListener ==
    /\ running' = Popped
    /\ StateUnchanged
    /\ UNCHANGED <<timers, adaptingJoint>>

\* notifyListeners calls its next listener
RunListener ==
    /\ running # <<>>
    /\ LET listener == Head(running[Len(running)])
       IN  /\ IF listener = "jointEditor" THEN JointEditorListener
              ELSE OtherListener
           /\ lastCall' = Step(listener, NoKey)
    /\ UNCHANGED <<ops, call, task>>
    /\ LoopUnchanged

\* The handler goes on after the call it made has returned
ContinueTask ==
    /\ running = <<>>
    /\ task # <<>>
    /\ LET next == Head(task)
       IN  IF next.kind = "autoAdapt"
           THEN LET optimalWidth == AutoAdaptFixedJoint(next.board, next.side)
                IN  /\ IF optimalWidth = Null
                       THEN StateUnchanged /\ UNCHANGED running
                       ELSE LoopUpdateJoint(next.side,
                                            [fingerWidth |-> optimalWidth])
                    /\ UNCHANGED timers
                    /\ lastCall' = Step("autoAdapt", NoKey)
           ELSE /\ timers' = Append(timers, ClearTimer(next.key))
                /\ StateUnchanged
                /\ UNCHANGED running
                /\ lastCall' = Step("setTimeout", next.key)
    /\ task' = Tail(task)
    /\ UNCHANGED <<ops, call, adaptingJoint>>
    /\ LoopUnchanged

\* A timer is due before the timers set after it and before the timers set
\* with a longer delay: a correction waits for the corrections set before it,
\* a reset of the flag (100 ms) for every timer set before it
Due(i) ==
    /\ i \in DOMAIN timers
    /\ \A j \in 1..(i - 1) :
         timers[i].kind = "adapt" /\ timers[j].kind = "clear"

Without(queue, i) == SubSeq(queue, 1, i - 1) \o SubSeq(queue, i + 1, Len(queue))

\* A correction that sets the flag and leaves the joint as it is
FireAdaptNoUpdate(i) ==
    /\ adaptingJoint' = timers[i].key
    /\ StateUnchanged
    /\ UNCHANGED running
    /\ task' = <<[kind |-> "clearLater", key |-> timers[i].key]>>

\* The deferred correction: the flag is set, updateJoint is called, and the
\* reset of the flag is set for 100 ms later
FireAdapt(i) ==
    /\ adaptingJoint' = timers[i].key
    /\ LoopUpdateJoint(timers[i].side, timers[i].updates)
    /\ task' = <<[kind |-> "clearLater", key |-> timers[i].key]>>

\* The reset of the flag
FireClear(i) ==
    /\ adaptingJoint' =
           IF adaptingJoint = timers[i].key THEN NoKey ELSE adaptingJoint
    /\ StateUnchanged
    /\ UNCHANGED <<running, task>>

\* The event loop runs a due timer
FireTimer(i) ==
    /\ Idle
    /\ Due(i)
    /\ IF timers[i].kind = "adapt" THEN FireAdapt(i) ELSE FireClear(i)
    /\ timers' = Without(timers, i)
    /\ lastCall' = Step(timers[i].kind, timers[i].key)
    /\ UNCHANGED <<ops, call>>
    /\ LoopUnchanged

\* Two new boards, the first selected with its top side shown
ProjectTwoNewBoards ==
    [boards |-> (1 :> NewBoard(1, DefaultDimensions))
                @@ (2 :> NewBoard(2, DefaultDimensions)),
     selectedBoardId |-> 1, selectedSide |-> "top"]

LoopProjects == {ProjectTwoNewBoards, ProjectTwoBoards}

LoopSides == {"top", "left"}
LoopWidths == {RInt(10), RZero}

\* The application once its constructor has loaded a saved project: the
\* listeners have run, and the corrections of the first render are pending
InitLoop ==
    /\ \E project \in LoopProjects :
         /\ boards = project.boards
         /\ selectedBoardId = project.selectedBoardId
         /\ selectedSide = project.selectedSide
         /\ history = <<StateRecord(project.boards, project.selectedBoardId,
                                    project.selectedSide, FALSE)>>
         /\ timers = JointEditorRender(project.boards, project.selectedBoardId,
                                       project.selectedSide, NoKey)
    /\ historyIndex = 1
    /\ showUnselectedTransparent = FALSE
    /\ lastCall = NoCall
    /\ csgFailed = {}
    /\ prePass = <<>>
    /\ ops = 0
    /\ call = [fn |-> "none"]
    /\ result = NoResult
    /\ heap = <<>>
    /\ scene = {}
    /\ meshCount = 0
    /\ adaptingJoint = NoKey
    /\ running = <<>>
    /\ task = <<>>

NextLoop ==
    \/ \E id \in DOMAIN boards : LoopSelectBoard(id)
    \/ \E side \in LoopSides : LoopSelectSide(side)
    \/ \E newWidth \in LoopWidths : LoopChangeFingerWidth(newWidth)
    \/ LoopUndo
    \/ LoopRedo
    \/ RunListener
    \/ ContinueTask
    \/ \E i \in DOMAIN timers : FireTimer(i)

SpecLoop == InitLoop /\ [][NextLoop]_vars

-----------------------------------------------------------------------------
(* Claims about the tasks of the event loop (SpecLoop)                     *)

StateVars ==
    <<boards, selectedBoardId, selectedSide, showUnselectedTransparent,
      history, historyIndex>>

\* C24: carving passes never nest: at most one notifyListeners call is in
\* progress, no step taken while its listeners run changes the state or the
\* history, and the JointEditor's render leaves the state alone and hands
\* every correction it computed to a timer
C24_PassesNeverNest ==
    /\ [](Len(running) <= 1)
    /\ [][running # <<>> => UNCHANGED StateVars]_vars
    /\ [][lastCall'.op = "jointEditor" =>
            /\ UNCHANGED StateVars
            /\ UNCHANGED adaptingJoint
            /\ timers' = timers \o JointEditorRender(boards, selectedBoardId,
                                                     selectedSide, adaptingJoint)]_vars

\* A render has deferred a correction and the carving pass of the same
\* notification is still to run
C24_Witness ==
    /\ lastCall.op = "jointEditor"
    /\ running = <<(<<"app">>)>>
    /\ timers # <<>>
    /\ timers[Len(timers)].kind = "adapt"

\* C27: a deferred correction computed while rendering board B, side S
\* modifies the joint of board B on side S only: the timer that applies it
\* leaves every other joint of every board as it was, whatever is selected
\* when it fires
C27_CorrectionStaysOnItsJoint ==
    [][lastCall'.op = "adapt" =>
         \A id \in DOMAIN boards' : \A side \in Sides :
            <<id, side>> # <<lastCall'.key[1], lastCall'.key[2]>> =>
               /\ id \in DOMAIN boards
               /\ boards'[id].joints[side] = boards[id].joints[side]]_vars

\* C28: undo is stable: once the undo button has restored a snapshot, the
\* steps the program takes without the user leave the state equal to that
\* snapshot and keep the history and its cursor, so that redo is possible
C28_UndoIsStable ==
    [][(call.fn = "undo" /\ call.restored /\ call' = call /\ ops' = ops) =>
         /\ UNCHANGED StateVars
         /\ CurrentState = history[historyIndex]]_vars

-----------------------------------------------------------------------------
(* Auto-adaptation left to itself (SpecAdapt)                              *)
(*                                                                         *)
(* A state change has just put a fixed joint that fails validation on the  *)
(* selected side of the selected board, and its listeners are about to     *)
(* run.  From there on the user does nothing: only the listeners, the      *)
(* handler continuations and the timers take steps, and the event loop     *)
(* runs every task that is due.                                            *)

\* The joint shown in the joint form, and the dimension of its side
ShownJoint == JointOrNew(boards[selectedBoardId], selectedSide)
ShownDimension == GetSideDimension(boards[selectedBoardId], selectedSide)

\* The validation of the joint shown
ShownValidation == RenderValidation(ShownJoint, ShownDimension)

\* The flag is either clear or set by an adaptation less than 100 ms ago,
\* whose reset is then pending
AdaptFlags(side) == {NoKey, WidthKey(1, side), DepthKey(1, side)}

\* A correction that an earlier render of the side deferred may still be
\* pending
EarlierCorrections(side) ==
    {<<>>, <<AdaptTimer(WidthKey(1, side), side, [fingerWidth |-> RInt(10)])>>}

InitAdapt ==
    /\ \E dimensions \in AdaptDimensions, side \in LoopSides,
          fingerWidth \in AdaptWidths, fingerCount \in AdaptCounts,
          grooveDepth \in AdaptDepths :
         LET joint == [NewJointConfig(side) EXCEPT
                         !.fingerWidth = fingerWidth,
                         !.fingerCount = fingerCount,
                         !.grooveDepth = grooveDepth]
             board == [NewBoard(1, dimensions) EXCEPT !.joints[side] = joint]
         IN  /\ ~ValidateFixedJoint(joint, GetSideDimension(board, side)).valid
             /\ boards = (1 :> board)
             /\ selectedBoardId = 1
             /\ selectedSide = side
             /\ history = <<StateRecord((1 :> board), 1, side, FALSE)>>
             /\ adaptingJoint \in AdaptFlags(side)
             /\ \E earlier \in EarlierCorrections(side) :
                  timers = (IF adaptingJoint = NoKey THEN <<>>
                            ELSE <<ClearTimer(adaptingJoint)>>) \o earlier
    /\ historyIndex = 1
    /\ showUnselectedTransparent = FALSE
    /\ lastCall = NoCall
    /\ csgFailed = {}
    /\ prePass = <<>>
    /\ ops = 0
    /\ call = [fn |-> "none"]
    /\ result = NoResult
    /\ heap = <<>>
    /\ scene = {}
    /\ meshCount = 0
    /\ running = <<Listeners>>
    /\ task = <<>>

NextAdapt ==
    \/ RunListener
    \/ ContinueTask
    \/ \E i \in DOMAIN timers : FireTimer(i)

\* Every task that is due is run
SpecAdapt == InitAdapt /\ [][NextAdapt]_vars /\ WF_vars(NextAdapt)

\* Nothing runs and no timer is pending
Quiet == Idle /\ timers = <<>>

\* The render of the state will defer a finger-width correction to a
\* positive width: the validation suggests one and the flag does not name
\* the joint
Adaptable ==
    /\ "suggestedWidth" \in DOMAIN ShownValidation
    /\ RLt(RZero, ShownValidation.suggestedWidth)
    /\ adaptingJoint # WidthKey(selectedBoardId, selectedSide)

\* If calculateOptimalFingerWidth of the side shown is > 0, the joint shown
\* passes validateFixedJoint
ValidIfOptimalIsPositive ==
    RLt(RZero, CalculateOptimalFingerWidth(ShownJoint.fingerCount,
                                           ShownDimension))
        => ShownValidation.valid

\* The joint shown passes validateFixedJoint
ShownValid == ShownValidation.valid

\* C30 as stated: from a state whose shown fixed joint fails validation the
\* chain of renders and timers stops with no timer pending, and if the
\* optimal finger width of the side is positive the joint then passes
\* validateFixedJoint
C30_AdaptationTerminatesValid ==
    <>[](Quiet /\ ValidIfOptimalIsPositive)

\* C30, amended: the chain always stops with no timer pending; the joint
\* then passes validateFixedJoint if its failed validation suggested a
\* positive width and the flag did not name the joint when it was rendered
C30_AdaptationTerminates ==
    /\ <>[]Quiet
    /\ Adaptable => <>[]ShownValid

\* A correction has been applied and its flag reset: the joint passes
C30_Witness ==
    /\ Quiet
    /\ Len(history) = 2
    /\ lastCall = Step("clear", WidthKey(selectedBoardId, selectedSide))
    /\ adaptingJoint = NoKey
    /\ ShownValidation.valid
    /\ ~ValidateFixedJoint(history[1].boards[1].joints[selectedSide],
                           ShownDimension).valid

=============================================================================
